---------------------------- MODULE Spec2Model ----------------------------
(***************************************************************************)
(* TypedJS: registry builder (parser), static analyzer, check compiler,    *)
(* runtime matcher and transform/emitter, modelled from the sources.       *)
(*                                                                         *)
(* JavaScript values and TypeNodes are encoded as records with a fixed set *)
(* of fields so that any two of them can be compared.                      *)
(***************************************************************************)
EXTENDS Integers, Sequences, FiniteSets, TLC

(***************************************************************************)
(* Bounds of the model.                                                    *)
(***************************************************************************)
\* longest array / tuple value built for the inputs
MaxLen == 2
\* number of distinct outcomes of one Math.random() draw of a loop-variable
\* suffix (the code draws from 0..999)
RandRange == 2
\* most top-level declarations of a program
MaxDecls == 2
\* most runs of staticAnalyze on one parsed program
MaxRuns == 2
\* most calls of generate on one parsed tree
MaxGenerates == 2

(***************************************************************************)
(* State.                                                                  *)
(***************************************************************************)
VARIABLES
  pc,           \* the step of the pipeline that was taken last
  declType,     \* the declared TypeNode
  initValue,    \* the value the variable is initialized with and the guard runs on
  bakedMode,    \* the mode generate was called with, written into the prelude
  ambientMode,  \* a mode held in the environment of the running program
  guardCode,    \* the guard compileCheck produced
  guardRun,     \* the run of the guard
  rtVerdict,    \* the verdict of the runtime Matcher: "unset", "true", "false"
  diagnostics,  \* the diagnostics of the Static Analyzer
  analyses,     \* what each run of staticAnalyze gave: its diagnostics and its result
  source,       \* the program as it was written
  ast,          \* the tree parseCode built, which generate transforms in place
  typeRegistry, \* the registry parseCode is building
  cursor,       \* the position of the running walk among the nodes it enters
  output,       \* what generate returned
  emitted,      \* every output generate returned for this tree, in the order of the calls
  isProd,       \* the command line carries --prod
  tmpFile,      \* typedjs_temp.js: <<>> while there is no such file, else its content
  imported,     \* the written file was executed
  exitCode,     \* how the process of the command line ended, "running" until then
  lastCall      \* the last call of a function of the output: callee, arguments, outcome

\* the state of the checks of one value against one type
checkVars == <<declType, initValue, bakedMode, ambientMode, guardCode, guardRun,
               rtVerdict, diagnostics, analyses>>
\* the state of the compilation of one unit
compileVars == <<source, ast, typeRegistry, cursor, output, emitted>>
\* the state of one run of the command line
cliVars == <<isProd, tmpFile, imported, exitCode>>
vars == <<pc, checkVars, compileVars, cliVars, lastCall>>

(***************************************************************************)
(* JavaScript values.  k is the runtime kind, n the numeric payload, a the *)
(* textual payload, ks the own enumerable keys of an object (in order) and *)
(* el the children (array elements, property values aligned with ks, set   *)
(* members, or the [key, value] entry arrays of a Map).                    *)
(***************************************************************************)
Undefined == [k |-> "undefined", n |-> 0, a |-> "", ks |-> <<>>, el |-> <<>>]
Null == [k |-> "null", n |-> 0, a |-> "", ks |-> <<>>, el |-> <<>>]
Num(i) == [k |-> "number", n |-> i, a |-> "", ks |-> <<>>, el |-> <<>>]
Str(s) == [k |-> "string", n |-> 0, a |-> s, ks |-> <<>>, el |-> <<>>]
Bool(b) == [k |-> "boolean", n |-> 0, a |-> IF b THEN "true" ELSE "false", ks |-> <<>>, el |-> <<>>]
\* the BigInt a literal such as 1n denotes
BigInt(i) == [k |-> "bigint", n |-> i, a |-> "", ks |-> <<>>, el |-> <<>>]
Arr(elems) == [k |-> "array", n |-> 0, a |-> "", ks |-> <<>>, el |-> elems]
Obj(keys, vals) == [k |-> "object", n |-> 0, a |-> "", ks |-> keys, el |-> vals]
MapOf(entries) == [k |-> "map", n |-> 0, a |-> "", ks |-> <<>>, el |-> entries]
SetOf(elems) == [k |-> "set", n |-> 0, a |-> "", ks |-> <<>>, el |-> elems]
\* the outcome of reading a property of undefined or null
TypeErrorVal == [k |-> "TypeError", n |-> 0, a |-> "", ks |-> <<>>, el |-> <<>>]
\* the outcome of reading a variable that is not bound (or is in its dead zone)
ReferenceErrorVal == [k |-> "ReferenceError", n |-> 0, a |-> "", ks |-> <<>>, el |-> <<>>]
IsErr(v) == v.k \in {"TypeError", "ReferenceError"}

\* JavaScript's typeof operator
TypeOf(v) ==
  CASE v.k = "undefined" -> "undefined"
    [] v.k = "number" -> "number"
    [] v.k = "string" -> "string"
    [] v.k = "boolean" -> "boolean"
    [] v.k = "bigint" -> "bigint"
    [] OTHER -> "object"

\* Array.isArray
IsArray(v) == v.k = "array"

\* position of a key in a key list, 0 when absent
IndexOfKey(keys, key) ==
  IF \E i \in 1..Len(keys) : keys[i] = key
    THEN CHOOSE i \in 1..Len(keys) : keys[i] = key
    ELSE 0

\* value[key] for a string key
GetProp(v, key) ==
  IF IsErr(v) THEN v
  ELSE IF v.k \in {"undefined", "null"} THEN TypeErrorVal
  ELSE IF v.k = "object" /\ IndexOfKey(v.ks, key) > 0 THEN v.el[IndexOfKey(v.ks, key)]
  ELSE IF v.k \in {"array", "string"} /\ key = "length"
    THEN Num(IF v.k = "array" THEN Len(v.el) ELSE 1)
  ELSE Undefined

\* value[i] for a numeric index (0-based, as in the source)
GetIndex(v, i) ==
  IF IsErr(v) THEN v
  ELSE IF v.k \in {"undefined", "null"} THEN TypeErrorVal
  ELSE IF v.k = "array" /\ i >= 0 /\ i < Len(v.el) THEN v.el[i + 1]
  ELSE Undefined

\* value === other, for the primitive operands the checks compare with
StrictEq(v, w) == v.k \in {"undefined", "null", "number", "string", "boolean", "bigint"} /\ v = w

(***************************************************************************)
(* TypeNodes.  js tells how the node is represented in JavaScript: a bare  *)
(* string ("string"), an object with a kind ("node") or an object shape    *)
(* whose own keys are the property names ("shape").                        *)
(*   name   the string itself, the enum name or a tuple label              *)
(*   lits   the literal value / the enum member values                     *)
(*   types  the child TypeNodes (members, element type, property types     *)
(*          aligned with keys, [keyType, valueType])                       *)
(*   keys   property names of a shape                                      *)
(*   index  <<valueType>> of __indexSignature, <<>> when there is none     *)
(*   optional  the optional flag of a labeled tuple element                *)
(***************************************************************************)
TNode(kind, name, lits, types) ==
  [js |-> "node", kind |-> kind, name |-> name, lits |-> lits, types |-> types,
   keys |-> <<>>, index |-> <<>>, optional |-> FALSE]
TString(name) ==
  [js |-> "string", kind |-> "", name |-> name, lits |-> <<>>, types |-> <<>>,
   keys |-> <<>>, index |-> <<>>, optional |-> FALSE]
TShape(keys, types, index) ==
  [js |-> "shape", kind |-> "", name |-> "", lits |-> <<>>, types |-> types,
   keys |-> keys, index |-> index, optional |-> FALSE]
TLiteral(v) == TNode("literal", "", <<v>>, <<>>)
TOptional(t) == TNode("optional", "", <<>>, <<t>>)
TUnion(ts) == TNode("union", "", <<>>, ts)
TIntersection(ts) == TNode("intersection", "", <<>>, ts)
TArray(t) == TNode("array", "", <<>>, <<t>>)
TReadonlyArray(t) == TNode("readonlyArray", "", <<>>, <<t>>)
TTuple(elements) == TNode("tuple", "", <<>>, elements)
TRest(t) == TNode("rest", "", <<>>, <<t>>)
TOptionalElement(t) == TNode("optionalElement", "", <<>>, <<t>>)
TLabeled(label, opt, t) == [TNode("labeled", label, <<>>, <<t>>) EXCEPT !.optional = opt]
TMap(kt, vt) == TNode("map", "", <<>>, <<kt, vt>>)
TSet(t) == TNode("set", "", <<>>, <<t>>)
TRecord(kt, vt) == TNode("record", "", <<>>, <<kt, vt>>)
TEnumRef(name, values) == TNode("enumRef", name, values, <<>>)
TGeneric(name, args) == TNode("generic", name, <<>>, args)

\* names that start with "__" among the property names of the model
DunderNames == {"__meta", "__indexSignature", "__callSignature", "__constructSignature", "__extends"}
StartsWithDunder(key) == key \in DunderNames

\* type.kind as JavaScript reads it: the kind of a node, undefined ("") for a
\* string and for a shape, unless the shape declares a property named kind, in
\* which case the read yields that property's TypeNode: its text when it is a
\* bare string, an object otherwise.
KindOf(t) ==
  IF t.js = "node" THEN t.kind
  ELSE IF t.js = "shape" /\ IndexOfKey(t.keys, "kind") > 0
    THEN LET p == t.types[IndexOfKey(t.keys, "kind")]
         IN IF p.js = "string" THEN p.name ELSE "[object Object]"
  ELSE ""

\* the own keys of a shape that are not metadata, in order, as indices
PropIndices(t) == {i \in 1..Len(t.keys) : ~StartsWithDunder(t.keys[i])}


\* el?.type || el : the element type a tuple element carries
ElemTypeOf(el) ==
  IF el.js = "node" /\ el.kind \in {"rest", "optionalElement", "labeled", "optional"}
    THEN el.types[1]
  ELSE IF el.js = "shape" /\ IndexOfKey(el.keys, "type") > 0
    THEN el.types[IndexOfKey(el.keys, "type")]
  ELSE el

\* el?.kind === 'optionalElement' || el?.optional
IsOptionalElement(el) ==
  \/ KindOf(el) = "optionalElement"
  \/ (el.js = "node" /\ el.optional)
  \/ (el.js = "shape" /\ IndexOfKey(el.keys, "optional") > 0)

\* Object.entries(value): the own enumerable string keys with their values
OwnKeys(v) ==
  IF v.k = "object" THEN v.ks
  ELSE IF v.k = "array" THEN [i \in 1..Len(v.el) |-> ToString(i - 1)]
  ELSE <<>>
OwnValues(v) == IF v.k \in {"object", "array"} THEN v.el ELSE <<>>

(***************************************************************************)
(* The runtime Matcher emitted in the helper prelude.                      *)
(***************************************************************************)
RECURSIVE __matchesType__(_, _)
__matchesType__(value, type) ==
  IF type.js = "string" THEN
    CASE type.name \in {"any", "unknown"} -> TRUE
      [] type.name = "void" -> value.k = "undefined"
      [] type.name = "never" -> FALSE
      [] type.name = "null" -> value.k = "null"
      [] type.name = "undefined" -> value.k = "undefined"
      [] type.name = "object" -> TypeOf(value) = "object" /\ value.k # "null"
      [] type.name = "array" -> IsArray(value)
      [] OTHER -> TypeOf(value) = type.name
  ELSE IF KindOf(type) = "literal" THEN StrictEq(value, type.lits[1])
  ELSE IF KindOf(type) = "optional" THEN
    IF value.k = "undefined" THEN TRUE ELSE __matchesType__(value, type.types[1])
  ELSE IF KindOf(type) = "union" THEN
    \E i \in 1..Len(type.types) : __matchesType__(value, type.types[i])
  ELSE IF KindOf(type) = "intersection" THEN
    \A i \in 1..Len(type.types) : __matchesType__(value, type.types[i])
  ELSE IF KindOf(type) = "" THEN
    \* an object without a kind: an object shape
    IF TypeOf(value) # "object" \/ value.k = "null" THEN FALSE
    ELSE \A i \in PropIndices(type) :
           __matchesType__(GetProp(value, type.keys[i]), type.types[i])
  ELSE IF KindOf(type) = "object" THEN
    \* { kind: 'object' } carries no properties field in this model
    TypeOf(value) = "object" /\ value.k # "null"
  ELSE IF KindOf(type) = "enumRef" THEN
    \E i \in 1..Len(type.lits) : StrictEq(value, type.lits[i])
  ELSE IF KindOf(type) \in {"array", "readonlyArray"} THEN
    IF ~IsArray(value) THEN FALSE
    ELSE \A i \in 1..Len(value.el) : __matchesType__(value.el[i], type.types[1])
  ELSE IF KindOf(type) = "tuple" THEN
    IF ~IsArray(value) THEN FALSE
    ELSE \A i \in 1..Len(type.types) :
      LET el == type.types[i] IN
      IF KindOf(el) = "rest"
        THEN \A j \in i..Len(value.el) : __matchesType__(value.el[j], el.types[1])
      ELSE IF IsOptionalElement(el) /\ Len(value.el) <= i - 1 THEN TRUE
      ELSE __matchesType__(GetIndex(value, i - 1), ElemTypeOf(el))
  ELSE IF KindOf(type) = "record" THEN
    IF TypeOf(value) # "object" \/ value.k = "null" \/ IsArray(value) THEN FALSE
    ELSE \A i \in 1..Len(OwnValues(value)) :
           __matchesType__(OwnValues(value)[i], type.types[2])
  ELSE IF KindOf(type) = "map" THEN
    IF value.k # "map" THEN FALSE
    ELSE \A i \in 1..Len(value.el) :
           /\ __matchesType__(value.el[i].el[1], type.types[1])
           /\ __matchesType__(value.el[i].el[2], type.types[2])
  ELSE IF KindOf(type) = "set" THEN
    IF value.k # "set" THEN FALSE
    ELSE \A i \in 1..Len(value.el) : __matchesType__(value.el[i], type.types[1])
  ELSE TRUE

\* __checkUnion__ written with every in place of some
checkUnionEvery(value, type) ==
  \A i \in 1..Len(type.types) : __matchesType__(value, type.types[i])

\* __checkUnion__ of the helper prelude
__checkUnion__(value, type) ==
  \E i \in 1..Len(type.types) : __matchesType__(value, type.types[i])

(***************************************************************************)
(* The Static Analyzer's matcher.                                          *)
(***************************************************************************)
RECURSIVE matchesType(_, _)
matchesType(value, type) ==
  IF value.k = "undefined" /\ type.js = "string" /\ type.name = "undefined" THEN TRUE
  ELSE IF value.k = "null" /\ type.js = "string" /\ type.name = "null" THEN TRUE
  ELSE IF KindOf(type) = "union" THEN
    \E i \in 1..Len(type.types) : matchesType(value, type.types[i])
  ELSE IF KindOf(type) = "literal" THEN StrictEq(value, type.lits[1])
  ELSE IF KindOf(type) = "intersection" THEN
    \A i \in 1..Len(type.types) : matchesType(value, type.types[i])
  ELSE IF KindOf(type) = "enumRef" THEN
    \E i \in 1..Len(type.lits) : StrictEq(value, type.lits[i])
  ELSE IF type.js = "string" THEN
    CASE type.name \in {"any", "unknown"} -> TRUE
      [] type.name = "never" -> FALSE
      [] type.name = "void" -> value.k = "undefined"
      [] type.name \in {"string", "number", "boolean"} -> TypeOf(value) = type.name
      [] type.name = "null" -> value.k = "null"
      [] type.name = "undefined" -> value.k = "undefined"
      [] type.name \in {"bigint", "symbol"} -> TypeOf(value) = type.name
      [] type.name = "object" -> TypeOf(value) = "object" /\ value.k # "null"
      [] OTHER -> FALSE
  ELSE IF KindOf(type) \in {"array", "readonlyArray"} THEN
    IF ~IsArray(value) THEN FALSE
    ELSE \A i \in 1..Len(value.el) : matchesType(value.el[i], type.types[1])
  ELSE IF KindOf(type) = "tuple" THEN
    IF ~IsArray(value) THEN FALSE
    ELSE
      LET elements == type.types
          requiredCount == Cardinality({i \in 1..Len(elements) :
                             KindOf(elements[i]) \notin {"optionalElement", "rest"}})
          restAt == IF \E i \in 1..Len(elements) : KindOf(elements[i]) = "rest"
                      THEN CHOOSE i \in 1..Len(elements) :
                             /\ KindOf(elements[i]) = "rest"
                             /\ \A j \in 1..(i - 1) : KindOf(elements[j]) # "rest"
                      ELSE Len(elements) + 1
          \* the for loop stops at the first position past the value; its
          \* verdict there is isOptional
          stopAt == IF \E i \in 1..(restAt - 1) : i > Len(value.el)
                      THEN Len(value.el) + 1 ELSE restAt
          elType(el) == IF KindOf(el) \in {"optionalElement", "labeled"} THEN el.types[1] ELSE el
          restType(el) == IF KindOf(el.types[1]) \in {"array", "readonlyArray"}
                            THEN el.types[1].types[1] ELSE el.types[1]
      IN IF Len(value.el) < requiredCount THEN FALSE
         ELSE /\ \A i \in 1..(stopAt - 1) : matchesType(value.el[i], elType(elements[i]))
              /\ IF stopAt < restAt THEN IsOptionalElement(elements[stopAt])
                 ELSE IF restAt <= Len(elements)
                   THEN \A j \in restAt..Len(value.el) :
                          matchesType(value.el[j], restType(elements[restAt]))
                 ELSE TRUE
  ELSE IF KindOf(type) = "record" THEN
    IF TypeOf(value) # "object" \/ value.k = "null" THEN FALSE
    ELSE \A i \in 1..Len(OwnKeys(value)) :
           /\ matchesType(Str(OwnKeys(value)[i]), type.types[1])
           /\ matchesType(OwnValues(value)[i], type.types[2])
  ELSE IF KindOf(type) = "map" THEN
    IF value.k # "map" THEN FALSE
    ELSE \A i \in 1..Len(value.el) :
           /\ matchesType(value.el[i].el[1], type.types[1])
           /\ matchesType(value.el[i].el[2], type.types[2])
  ELSE IF KindOf(type) = "set" THEN
    IF value.k # "set" THEN FALSE
    ELSE \A i \in 1..Len(value.el) : matchesType(value.el[i], type.types[1])
  ELSE TRUE  \* any other object: "Defer to checkObject"


(***************************************************************************)
(* The Check Compiler.  The generated guard text is represented by its     *)
(* statement tree.  A target expression is a variable followed by property *)
(* and index accessors; an accessor reads a fixed property (t = "prop"), a *)
(* fixed index (t = "idx") or the current value of a loop variable         *)
(* (t = "var").                                                            *)
(***************************************************************************)
Expr(base) == [base |-> base, acc |-> <<>>]
Dot(x, key) == [x EXCEPT !.acc = Append(@, [t |-> "prop", s |-> key, i |-> 0])]
At(x, i) == [x EXCEPT !.acc = Append(@, [t |-> "idx", s |-> "", i |-> i])]
AtVar(x, lv) == [x EXCEPT !.acc = Append(@, [t |-> "var", s |-> lv, i |-> 0])]

\* the source text of a target expression
RECURSIVE AccText(_)
AccText(acc) ==
  IF acc = <<>> THEN ""
  ELSE LET h == Head(acc)
       IN (CASE h.t = "prop" -> "." \o h.s
             [] h.t = "idx" -> "[" \o ToString(h.i) \o "]"
             [] OTHER -> "[" \o h.s \o "]") \o AccText(Tail(acc))
ExprText(x) == x.base \o AccText(x.acc)

\* String(value) of a literal value
ValueText(v) ==
  CASE v.k \in {"number", "bigint"} -> ToString(v.n)
    [] v.k \in {"string", "boolean"} -> v.a
    [] OTHER -> v.k

\* typeToString of compiler.js: the expected-type text of an error message
RECURSIVE JoinTypes(_, _, _)
RECURSIVE typeToString(_)
typeToString(type) ==
  IF type.js = "string" THEN type.name
  ELSE IF KindOf(type) = "union" THEN JoinTypes(type.types, " | ", 1)
  ELSE IF KindOf(type) = "intersection" THEN JoinTypes(type.types, " & ", 1)
  ELSE IF KindOf(type) = "array" THEN typeToString(type.types[1]) \o "[]"
  ELSE IF KindOf(type) = "readonlyArray"
    THEN "ReadonlyArray<" \o typeToString(type.types[1]) \o ">"
  ELSE IF KindOf(type) = "literal" THEN
    (IF type.lits[1].k = "string" THEN "\"" \o type.lits[1].a \o "\""
     ELSE ValueText(type.lits[1]))
  ELSE IF KindOf(type) = "enumRef" THEN type.name
  ELSE IF KindOf(type) # "" THEN KindOf(type)
  ELSE "unknown"
JoinTypes(ts, sep, i) ==
  IF i > Len(ts) THEN ""
  ELSE typeToString(ts[i]) \o (IF i < Len(ts) THEN sep ELSE "") \o JoinTypes(ts, sep, i + 1)

\* One statement of a guard:
\*   op = "test":  if (<cond> fails for target) hook(path, expected); else { body }
\*   op = "ifdef": if (target !== undefined) { body }
\*   op = "iflen": if (target.length > from) { body }
\*   op = "for":   for (let lv = from; lv < target.length; lv++) { body }
\*   op = "forin": for (const lv in target) { body }
\*   op = "forof": for (const lv of target.entries() / target.values()) { body }
Stmt(op, cond, target, path, expected) ==
  [op |-> op, cond |-> cond, target |-> target, path |-> path, expected |-> expected,
   lits |-> <<>>, type |-> <<>>, lv |-> "", from |-> 0, body |-> <<>>]

\* the suffix Math.random() yields for a loop variable generated at the given
\* nesting depth of generated loops
LoopVar(prefix, rnd, depth) ==
  prefix \o ToString(IF depth + 1 <= Len(rnd) THEN rnd[depth + 1] ELSE 0)

compileStringType(varName, type, pathStr) ==
  CASE type \in {"any", "unknown"} -> <<>>
    [] type = "void" -> <<Stmt("test", "undefined", varName, pathStr, "void")>>
    [] type = "never" -> <<Stmt("test", "never", varName, pathStr, "never")>>
    [] type = "null" -> <<Stmt("test", "null", varName, pathStr, "null")>>
    [] type = "undefined" -> <<Stmt("test", "undefined", varName, pathStr, "undefined")>>
    [] type = "object" -> <<Stmt("test", "object", varName, pathStr, "object")>>
    [] type = "array" -> <<Stmt("test", "isArray", varName, pathStr, "Array")>>
    [] type \in {"string", "number", "boolean", "bigint", "symbol", "function"} ->
         <<Stmt("test", "typeof", varName, pathStr, type)>>
    [] OTHER -> <<>>

\* isObjectShape of compiler.js
isObjectShape(type) == type.js # "string" /\ KindOf(type) = ""

\* flattening of a sequence of statement lists
RECURSIVE Flatten(_)
Flatten(ss) == IF ss = <<>> THEN <<>> ELSE Head(ss) \o Flatten(Tail(ss))

\* JSON.parse(JSON.stringify(type)): the TypeNode as the emitted text carries it.
\* Strings, numbers and booleans survive; a property whose value is undefined
\* is dropped, and reads back as undefined.
RECURSIVE JSONRoundTrip(_)
JSONRoundTrip(type) ==
  [js |-> type.js, kind |-> type.kind, name |-> type.name,
   lits |-> [i \in 1..Len(type.lits) |->
               IF type.lits[i].k \in {"number", "string", "boolean", "null"}
                 THEN type.lits[i] ELSE Undefined],
   types |-> [i \in 1..Len(type.types) |-> JSONRoundTrip(type.types[i])],
   keys |-> type.keys,
   index |-> [i \in 1..Len(type.index) |-> JSONRoundTrip(type.index[i])],
   optional |-> type.optional]

\* rnd holds the Math.random() draws, one per nesting depth of generated loops
RECURSIVE compileCheck(_, _, _, _, _, _)
RECURSIVE compileTupleCheck(_, _, _, _, _, _, _)
RECURSIVE compileObjectCheck(_, _, _, _, _, _, _)
compileCheck(varName, type, mode, path, rnd, depth) ==
  LET pathStr == IF path # "" THEN path ELSE ExprText(varName) IN
  IF type.js = "string" THEN compileStringType(varName, type.name, pathStr)
  ELSE IF KindOf(type) = "literal" THEN
    <<[Stmt("test", "literal", varName, pathStr, ValueText(type.lits[1]))
        EXCEPT !.lits = type.lits]>>
  ELSE IF KindOf(type) = "optional" THEN
    LET inner == compileCheck(varName, type.types[1], mode, path, rnd, depth)
    IN IF inner = <<>> THEN <<>>
       ELSE <<[Stmt("ifdef", "", varName, pathStr, "") EXCEPT !.body = inner]>>
  ELSE IF KindOf(type) \in {"array", "readonlyArray"} THEN
    LET loopVar == LoopVar("i_", rnd, depth)
        itemCheck == compileCheck(AtVar(varName, loopVar), type.types[1], mode, path,
                                  rnd, depth + 1)
    IN <<[Stmt("test", "isArray", varName, pathStr, "Array") EXCEPT !.body =
           <<[Stmt("for", "", varName, pathStr, "") EXCEPT !.lv = loopVar, !.body = itemCheck]>>]>>
  ELSE IF KindOf(type) = "tuple" THEN
    compileTupleCheck(varName, type, mode, pathStr, path, rnd, depth)
  ELSE IF KindOf(type) = "object" \/ isObjectShape(type) THEN
    compileObjectCheck(varName,
                       IF KindOf(type) = "object" THEN TShape(<<>>, <<>>, <<>>) ELSE type,
                       mode, pathStr, path, rnd, depth)
  ELSE IF KindOf(type) = "union" THEN
    <<[Stmt("test", "checkUnion", varName, pathStr, typeToString(type))
        EXCEPT !.type = <<JSONRoundTrip(type)>>]>>
  ELSE IF KindOf(type) = "intersection" THEN
    Flatten([i \in 1..Len(type.types) |->
               compileCheck(varName, type.types[i], mode, path, rnd, depth)])
  ELSE IF KindOf(type) = "map" THEN
    LET loopVar == LoopVar("e_", rnd, depth)
        keyCheck == compileCheck(At(Expr(loopVar), 0), type.types[1], mode, path, rnd, depth + 1)
        valueCheck == compileCheck(At(Expr(loopVar), 1), type.types[2], mode, path, rnd, depth + 1)
    IN <<[Stmt("test", "isMap", varName, pathStr, "Map") EXCEPT !.body =
           <<[Stmt("forof", "", varName, pathStr, "")
               EXCEPT !.lv = loopVar, !.body = keyCheck \o valueCheck]>>]>>
  ELSE IF KindOf(type) = "set" THEN
    LET loopVar == LoopVar("v_", rnd, depth)
        valueCheck == compileCheck(Expr(loopVar), type.types[1], mode, path, rnd, depth + 1)
    IN <<[Stmt("test", "isSet", varName, pathStr, "Set") EXCEPT !.body =
           <<[Stmt("forof", "", varName, pathStr, "")
               EXCEPT !.lv = loopVar, !.body = valueCheck]>>]>>
  ELSE IF KindOf(type) = "record" THEN
    LET loopVar == LoopVar("k_", rnd, depth)
        valueCheck == compileCheck(AtVar(varName, loopVar), type.types[2], mode, path,
                                   rnd, depth + 1)
    IN <<[Stmt("test", "objectNotArray", varName, pathStr, "object") EXCEPT !.body =
           <<[Stmt("forin", "", varName, pathStr, "")
               EXCEPT !.lv = loopVar, !.body = valueCheck]>>]>>
  ELSE IF KindOf(type) = "enumRef" THEN
    <<[Stmt("test", "includes", varName, pathStr, type.name) EXCEPT !.lits = type.lits]>>
  ELSE
    <<[Stmt("test", "matchesType", varName, pathStr, typeToString(type))
        EXCEPT !.type = <<JSONRoundTrip(type)>>]>>

compileTupleCheck(varName, type, mode, pathStr, path, rnd, depth) ==
  LET elements == type.types
      restAt == IF \E i \in 1..Len(elements) : KindOf(elements[i]) = "rest"
                  THEN CHOOSE i \in 1..Len(elements) :
                         /\ KindOf(elements[i]) = "rest"
                         /\ \A j \in 1..(i - 1) : KindOf(elements[j]) # "rest"
                  ELSE Len(elements) + 1
      loopVar == LoopVar("r_", rnd, depth)
      elemStmts(i) ==
        LET el == elements[i]
            elemCheck == compileCheck(At(varName, i - 1), ElemTypeOf(el), mode, path, rnd, depth)
        IN IF IsOptionalElement(el)
             THEN <<[Stmt("iflen", "", varName, pathStr, "")
                      EXCEPT !.from = i - 1, !.body = elemCheck]>>
             ELSE elemCheck
      restStmts ==
        IF restAt <= Len(elements)
          THEN <<[Stmt("for", "", varName, pathStr, "") EXCEPT
                   !.lv = loopVar, !.from = restAt - 1,
                   !.body = compileCheck(AtVar(varName, loopVar), elements[restAt].types[1],
                                         mode, path, rnd, depth + 1)]>>
          ELSE <<>>
  IN <<[Stmt("test", "isArray", varName, pathStr, "Array") EXCEPT !.body =
         Flatten([i \in 1..(restAt - 1) |-> elemStmts(i)]) \o restStmts]>>

compileObjectCheck(varName, shape, mode, pathStr, path, rnd, depth) ==
  LET propStmts(i) ==
        IF StartsWithDunder(shape.keys[i]) THEN <<>>
        ELSE compileCheck(Dot(varName, shape.keys[i]), shape.types[i], mode,
                          (IF path # "" THEN path \o "." ELSE "") \o shape.keys[i],
                          rnd, depth)
      loopVar == LoopVar("k_", rnd, depth)
      indexStmts ==
        IF shape.index # <<>>
          THEN <<[Stmt("forin", "", varName, pathStr, "") EXCEPT
                   !.lv = loopVar,
                   !.body = compileCheck(AtVar(varName, loopVar), shape.index[1], mode, path,
                                         rnd, depth + 1)]>>
          ELSE <<>>
  IN <<[Stmt("test", "objectNotArray", varName, pathStr, "object") EXCEPT !.body =
         Flatten([i \in 1..Len(shape.keys) |-> propStmts(i)]) \o indexStmts]>>


(***************************************************************************)
(* Running a guard.  A run is described by the hook calls made, the lines  *)
(* logged and the exception, if any, that ended it.                        *)
(***************************************************************************)
NoRun == [calls |-> <<>>, log |-> <<>>, error |-> ""]

\* __handleCheckError__ deciding by the mode the environment holds
handleCheckErrorAmbient(__TPJS_MODE__, run, name, expected, actual) ==
  LET call == [name |-> name, expected |-> expected, actual |-> actual] IN
  IF ambientMode = "production" \/ ambientMode = "strict"
    THEN [run EXCEPT !.calls = Append(@, call), !.error = "TypedJS"]
    ELSE [run EXCEPT !.calls = Append(@, call), !.log = Append(@, call)]

\* __handleCheckError__ of the helper prelude; __TPJS_MODE__ is the mode that
\* generate wrote into the prelude
__handleCheckError__(__TPJS_MODE__, run, name, expected, actual) ==
  LET call == [name |-> name, expected |-> expected, actual |-> actual] IN
  IF __TPJS_MODE__ = "production" \/ __TPJS_MODE__ = "strict"
    THEN [run EXCEPT !.calls = Append(@, call), !.error = "TypedJS"]
    ELSE [run EXCEPT !.calls = Append(@, call), !.log = Append(@, call)]

\* value[key] where key is the current value of a loop variable
GetByKey(v, key) ==
  IF IsErr(key) THEN key
  ELSE IF key.k = "number" THEN GetIndex(v, key.n)
  ELSE IF v.k = "array" /\ IndexOfKey(OwnKeys(v), key.a) > 0
    THEN v.el[IndexOfKey(OwnKeys(v), key.a)]
  ELSE GetProp(v, key.a)

Lookup(env, name) == IF name \in DOMAIN env THEN env[name] ELSE ReferenceErrorVal

RECURSIVE EvalAcc(_, _, _)
EvalAcc(v, acc, env) ==
  IF acc = <<>> \/ IsErr(v) THEN v
  ELSE LET h == Head(acc)
           next == CASE h.t = "prop" -> GetProp(v, h.s)
                     [] h.t = "idx" -> GetIndex(v, h.i)
                     [] OTHER -> GetByKey(v, Lookup(env, h.s))
       IN EvalAcc(next, Tail(acc), env)
Eval(x, env) == EvalAcc(Lookup(env, x.base), x.acc, env)

\* whether the expression reads the given variable
Mentions(x, lv) ==
  x.base = lv \/ \E i \in 1..Len(x.acc) : x.acc[i].t = "var" /\ x.acc[i].s = lv

\* whether the test of a statement reports the value
Fails(st, X) ==
  CASE st.cond = "typeof" -> TypeOf(X) # st.expected
    [] st.cond = "undefined" -> X.k # "undefined"
    [] st.cond = "never" -> TRUE
    [] st.cond = "null" -> X.k # "null"
    [] st.cond = "object" -> TypeOf(X) # "object" \/ X.k = "null"
    [] st.cond = "isArray" -> ~IsArray(X)
    [] st.cond = "objectNotArray" -> TypeOf(X) # "object" \/ X.k = "null" \/ IsArray(X)
    [] st.cond = "literal" -> ~StrictEq(X, st.lits[1])
    [] st.cond = "includes" -> ~\E i \in 1..Len(st.lits) : StrictEq(X, st.lits[i])
    [] st.cond = "checkUnion" -> ~__checkUnion__(X, st.type[1])
    [] st.cond = "matchesType" -> ~__matchesType__(X, st.type[1])
    [] st.cond = "isMap" -> X.k # "map"
    [] st.cond = "isSet" -> X.k # "set"
    [] OTHER -> FALSE

RECURSIVE ExecStmts(_, _, _, _)
RECURSIVE ExecStmt(_, _, _, _)
RECURSIVE ExecFor(_, _, _, _, _)
RECURSIVE ExecEach(_, _, _, _, _, _)
ExecStmts(stmts, env, mode, run) ==
  IF stmts = <<>> \/ run.error # "" THEN run
  ELSE ExecStmts(Tail(stmts), env, mode, ExecStmt(Head(stmts), env, mode, run))

ExecStmt(st, env, mode, run) ==
  IF st.op \in {"forin", "forof"} THEN
    \* the loop variable is in its dead zone while the iterated expression is read
    IF Mentions(st.target, st.lv) THEN [run EXCEPT !.error = "ReferenceError"]
    ELSE LET X == Eval(st.target, env) IN
      IF IsErr(X) THEN [run EXCEPT !.error = X.k]
      ELSE ExecEach(st, IF st.op = "forin"
                          THEN [i \in 1..Len(OwnKeys(X)) |-> Str(OwnKeys(X)[i])]
                          ELSE X.el,
                    1, env, mode, run)
  ELSE IF st.op = "for" THEN ExecFor(st, st.from, env, mode, run)
  ELSE LET X == Eval(st.target, env) IN
    IF IsErr(X) THEN [run EXCEPT !.error = X.k]
    ELSE IF st.op = "test" THEN
      IF Fails(st, X)
        THEN __handleCheckError__(mode, run, st.path, st.expected, X)
        ELSE ExecStmts(st.body, env, mode, run)
    ELSE IF st.op = "ifdef" THEN
      IF X.k # "undefined" THEN ExecStmts(st.body, env, mode, run) ELSE run
    ELSE IF st.op = "iflen" THEN
      LET len == GetProp(X, "length") IN
      IF IsErr(len) THEN [run EXCEPT !.error = len.k]
      ELSE IF len.k = "number" /\ len.n > st.from
        THEN ExecStmts(st.body, env, mode, run) ELSE run
    ELSE run

\* for (let lv = i; lv < target.length; lv++) { body }: the bound is read with
\* lv in scope
ExecFor(st, i, env, mode, run) ==
  IF run.error # "" THEN run
  ELSE LET env2 == (st.lv :> Num(i)) @@ env
           len == GetProp(Eval(st.target, env2), "length")
       IN IF IsErr(len) THEN [run EXCEPT !.error = len.k]
          ELSE IF len.k = "number" /\ i < len.n
            THEN ExecFor(st, i + 1, env, mode, ExecStmts(st.body, env2, mode, run))
          ELSE run

ExecEach(st, items, i, env, mode, run) ==
  IF i > Len(items) \/ run.error # "" THEN run
  ELSE ExecEach(st, items, i + 1, env, mode,
                ExecStmts(st.body, (st.lv :> items[i]) @@ env, mode, run))

\* the run of the guard compiled for a type on one value bound to varName
RunGuard(code, varName, value, mode) ==
  ExecStmts(code, (varName :> value), mode, NoRun)


(***************************************************************************)
(* Expression nodes of the syntax tree, as far as the analyzer looks at    *)
(* them: type is the node type, value the value of a Literal, keys the     *)
(* property keys of an ObjectExpression and elems the element / property   *)
(* value nodes.                                                            *)
(***************************************************************************)
ENode(type, value, keys, elems) ==
  [type |-> type, value |-> value, keys |-> keys, elems |-> elems]

\* the expression that denotes a value in source text
RECURSIVE ExprOf(_)
ExprOf(v) ==
  CASE v.k \in {"number", "string", "boolean", "null", "bigint"} -> ENode("Literal", v, <<>>, <<>>)
    [] v.k = "undefined" -> ENode("Identifier", Undefined, <<>>, <<>>)
    [] v.k = "array" -> ENode("ArrayExpression", Undefined, <<>>,
                              [i \in 1..Len(v.el) |-> ExprOf(v.el[i])])
    [] v.k = "object" -> ENode("ObjectExpression", Undefined, v.ks,
                               [i \in 1..Len(v.el) |-> ExprOf(v.el[i])])
    [] OTHER -> ENode("NewExpression", Undefined, <<>>, <<>>)

\* one diagnostic: what says which message it is, name is the variable, path or
\* function it names, key the missing property
Diag(what, name, key) == [what |-> what, name |-> name, key |-> key]

\* errors.push(`... ${JSON.stringify(value)} ...`): JSON.stringify throws a
\* TypeError on a BigInt; the throw is recorded in place of the message
Report(errors, what, name, value) ==
  Append(errors, Diag(IF value.k = "bigint" THEN "TypeError" ELSE what, name, ""))
\* the run threw: nothing catches it inside staticAnalyze
Threw(errors) == \E i \in 1..Len(errors) : errors[i].what = "TypeError"

\* type.kind && typeof type.kind === 'string'
HasStringKind(type) == KindOf(type) \notin {"", "[object Object]"}

\* what one run of staticAnalyze gives: the diagnostics it printed and the
\* boolean it returned, or the error it threw
NoAnalysis == [errors |-> <<>>, ok |-> "unset"]
Outcome(errors) ==
  IF Threw(errors) THEN [errors |-> <<>>, ok |-> "TypeError"]
  ELSE [errors |-> errors, ok |-> IF Len(errors) = 0 THEN "true" ELSE "false"]

RECURSIVE checkType(_, _, _, _)
RECURSIVE checkObject(_, _, _, _)
RECURSIVE checkEach(_, _, _, _, _)
checkType(name, valueNode, type, errors) ==
  IF StartsWithDunder(name) THEN errors
  ELSE IF valueNode.type = "Literal" THEN
    IF ~matchesType(valueNode.value, type)
      THEN Report(errors, "got", name, valueNode.value) ELSE errors
  ELSE IF valueNode.type = "ObjectExpression" /\ type.js # "string" /\ KindOf(type) # "literal"
    THEN checkObject(name, valueNode, type, errors)
  ELSE IF valueNode.type = "ArrayExpression" THEN
    IF KindOf(type) \in {"array", "readonlyArray", "tuple"}
      THEN checkEach(name, valueNode, type, 1, errors)
      ELSE errors
  ELSE errors

\* the forEach over the elements of an array literal, from element i on
checkEach(name, valueNode, type, i, errors) ==
  IF i > Len(valueNode.elems) THEN errors
  ELSE LET elem == valueNode.elems[i]
           elemName == name \o "[" \o ToString(i - 1) \o "]"
           after ==
             IF KindOf(type) = "tuple" THEN
               IF i <= Len(type.types)
                 THEN LET el == type.types[i]
                          elType == IF KindOf(el) \in {"optionalElement", "labeled"}
                                      THEN el.types[1] ELSE el
                      IN checkType(elemName, elem, elType, errors)
                 ELSE errors
             ELSE checkType(elemName, elem, type.types[1], errors)
       IN checkEach(name, valueNode, type, i + 1, after)

RECURSIVE checkMembers(_, _, _, _, _)
RECURSIVE checkProps(_, _, _, _, _)
RECURSIVE checkIndexSignature(_, _, _, _, _)
checkObject(name, objectExpr, type, errors) ==
  IF type.js = "string" THEN errors
  ELSE IF KindOf(type) = "union" THEN errors
  ELSE IF KindOf(type) = "intersection" THEN checkMembers(name, objectExpr, type, 1, errors)
  ELSE IF HasStringKind(type) THEN errors
  ELSE checkIndexSignature(name, objectExpr, type, 1,
         checkProps(name, objectExpr, type, 1, errors))

\* the forEach over the members of an intersection
checkMembers(name, objectExpr, type, i, errors) ==
  IF i > Len(type.types) THEN errors
  ELSE LET memberType == type.types[i]
       IN checkMembers(name, objectExpr, type, i + 1,
            IF memberType.js # "string" /\ KindOf(memberType) = ""
              THEN checkObject(name, objectExpr, memberType, errors)
              ELSE errors)

\* the loop over the declared properties of a shape
checkProps(name, objectExpr, type, i, errors) ==
  IF i > Len(type.keys) THEN errors
  ELSE LET key == type.keys[i]
           expectedType == type.types[i]
           isOptional == KindOf(expectedType) = "optional"
           actualType == IF isOptional THEN expectedType.types[1] ELSE expectedType
           at == IndexOfKey(objectExpr.keys, key)
           after ==
             IF StartsWithDunder(key) THEN errors
             ELSE IF at = 0 THEN
               IF ~isOptional THEN Append(errors, Diag("missing", name, key)) ELSE errors
             ELSE checkType(name \o "." \o key, objectExpr.elems[at], actualType, errors)
       IN checkProps(name, objectExpr, type, i + 1, after)

\* the loop over the supplied properties when the shape has an index signature
checkIndexSignature(name, objectExpr, type, i, errors) ==
  IF type.index = <<>> \/ i > Len(objectExpr.keys) THEN errors
  ELSE LET key == objectExpr.keys[i]
           after ==
             IF IndexOfKey(type.keys, key) = 0 \/ StartsWithDunder(key)
               THEN checkType(name \o "[\"" \o key \o "\"]", objectExpr.elems[i],
                              type.index[1], errors)
               ELSE errors
       IN checkIndexSignature(name, objectExpr, type, i + 1, after)

\* staticAnalyze, the check of one variable initializer against the declared type
checkInitializer(name, init, declaredType, errors) ==
  IF init.type = "Literal" THEN
    IF ~matchesType(init.value, declaredType)
      THEN Report(errors, "initializer", name, init.value) ELSE errors
  ELSE IF init.type = "ObjectExpression" THEN checkObject(name, init, declaredType, errors)
  ELSE IF init.type = "ArrayExpression" THEN checkType(name, init, declaredType, errors)
  ELSE errors


(***************************************************************************)
(* The syntax tree.  A type annotation is a TS type node: type is the node *)
(* type, name the referenced name, literal the value of a literal type and *)
(* types the member / element type nodes.  A missing annotation is <<>>, a *)
(* present one a one-element sequence.                                     *)
(***************************************************************************)
TSNode(type, name, literal, types) ==
  [type |-> type, name |-> name, literal |-> literal, types |-> types]
TSKeyword(type) == TSNode(type, "", <<>>, <<>>)
TSTypeReference(name) == TSNode("TSTypeReference", name, <<>>, <<>>)
\* name<typeArguments>
TSGenericReference(name, typeArguments) == TSNode("TSTypeReference", name, <<>>, typeArguments)
TSLiteralType(v) == TSNode("TSLiteralType", "", <<v>>, <<>>)
TSUnionType(types) == TSNode("TSUnionType", "", <<>>, types)
TSArrayType(elementType) == TSNode("TSArrayType", "", <<>>, <<elementType>>)

\* the keyword cases of tsTypeToString
KeywordText ==
  "TSNullKeyword" :> "null" @@ "TSUndefinedKeyword" :> "undefined"
  @@ "TSBigIntKeyword" :> "bigint" @@ "TSSymbolKeyword" :> "symbol"
  @@ "TSStringKeyword" :> "string" @@ "TSNumberKeyword" :> "number"
  @@ "TSBooleanKeyword" :> "boolean" @@ "TSVoidKeyword" :> "void"
  @@ "TSNeverKeyword" :> "never" @@ "TSAnyKeyword" :> "any"
  @@ "TSUnknownKeyword" :> "unknown" @@ "TSObjectKeyword" :> "object"

(***************************************************************************)
(* A statement node.  name is the declared identifier; typeAnnotation and  *)
(* returnType the annotations written on it; params the parameter          *)
(* identifiers; members the members of an interface, enum or class; body   *)
(* the child statements (the declaration of an export, the statements of a *)
(* block, the block of a function, the consequent of an if); argument the  *)
(* returned expression, init the initializer, check the compiled guard a   *)
(* generated statement was parsed from.  acorn's nodes carry no link to    *)
(* their parent: parent is absent on every node.                           *)
(***************************************************************************)
ASTNode(type, name) ==
  [type |-> type, name |-> name, typeAnnotation |-> <<>>, returnType |-> <<>>,
   params |-> <<>>, members |-> <<>>, body |-> <<>>, argument |-> "", init |-> "",
   kind |-> "", check |-> <<>>, parent |-> <<>>]
Identifier(name, typeAnnotation) ==
  [ASTNode("Identifier", name) EXCEPT !.typeAnnotation = typeAnnotation]
\* the initializer of an enum member that is no Literal node: - n, a
\* UnaryExpression, and any other expression, of value n
UnaryMinus(n) == [k |-> "negative", n |-> n, a |-> "", ks |-> <<>>, el |-> <<>>]
ComputedInitializer(n) == [k |-> "expression", n |-> n, a |-> "", ks |-> <<>>, el |-> <<>>]
\* a property signature, class field or enum member
Member(name, optional, typeAnnotation, initializer) ==
  [name |-> name, optional |-> optional, typeAnnotation |-> typeAnnotation,
   initializer |-> initializer]
Program(body) == [ASTNode("Program", "") EXCEPT !.body = body]
BlockStatement(body) == [ASTNode("BlockStatement", "") EXCEPT !.body = body]
TSInterfaceDeclaration(name, members) ==
  [ASTNode("TSInterfaceDeclaration", name) EXCEPT !.members = members]
TSTypeAliasDeclaration(name, typeAnnotation) ==
  [ASTNode("TSTypeAliasDeclaration", name) EXCEPT !.typeAnnotation = <<typeAnnotation>>]
TSEnumDeclaration(name, members) ==
  [ASTNode("TSEnumDeclaration", name) EXCEPT !.members = members]
ExportNamedDeclaration(declaration) ==
  [ASTNode("ExportNamedDeclaration", "") EXCEPT !.body = <<declaration>>]
\* kind name: typeAnnotation = init, one declarator
VariableDeclaration(kind, name, typeAnnotation, init) ==
  [ASTNode("VariableDeclaration", name)
     EXCEPT !.kind = kind, !.typeAnnotation = typeAnnotation, !.init = init]
FunctionDeclaration(name, params, returnType, statements) ==
  [ASTNode("FunctionDeclaration", name)
     EXCEPT !.params = params, !.returnType = returnType,
            !.body = <<BlockStatement(statements)>>]
ClassDeclaration(name, members) ==
  [ASTNode("ClassDeclaration", name) EXCEPT !.members = members]
ReturnStatement(argument) == [ASTNode("ReturnStatement", "") EXCEPT !.argument = argument]
\* () => { statements }
ArrowFunctionExpression(statements) ==
  [ASTNode("ArrowFunctionExpression", "") EXCEPT !.body = <<BlockStatement(statements)>>]
\* kind name = <function>, the initializer held as the child of the declaration
FunctionVariable(kind, name, function) ==
  [ASTNode("VariableDeclaration", name) EXCEPT !.kind = kind, !.body = <<function>>]
IfStatement(consequent) == [ASTNode("IfStatement", "") EXCEPT !.body = <<consequent>>]
ExpressionStatement(text) == [ASTNode("ExpressionStatement", "") EXCEPT !.init = text]

\* the statement nodes in the order walk enters them; the Program node, the
\* identifiers and the expressions, which no branch of the handlers of parseCode
\* matches, are not listed
RECURSIVE Walk(_)
Walk(nodes) ==
  IF nodes = <<>> THEN <<>>
  ELSE <<Head(nodes)>> \o Walk(Head(nodes).body) \o Walk(Tail(nodes))

(***************************************************************************)
(* The registry builder.                                                   *)
(***************************************************************************)
\* one registry entry; shape, type and returnType hold at most one TypeNode
Entry(kind, name) ==
  [kind |-> kind, name |-> name, shape |-> <<>>, type |-> <<>>, returnType |-> <<>>,
   params |-> <<>>, members |-> <<>>, properties |-> <<>>]

\* registry.find(e => e.kind === kind && e.name === name): the index of the
\* first such entry, 0 when there is none
RECURSIVE FindFrom(_, _, _, _)
FindFrom(registry, kind, name, i) ==
  IF i > Len(registry) THEN 0
  ELSE IF registry[i].kind = kind /\ registry[i].name = name THEN i
  ELSE FindFrom(registry, kind, name, i + 1)
Find(registry, kind, name) == FindFrom(registry, kind, name, 1)

\* the outcome of a translation that threw instead of returning a TypeNode
Thrown == TNode("TypeError", "", <<>>, <<>>)
\* one of the translations of a list of type nodes threw
AnyThrown(types) == \E i \in 1..Len(types) : types[i] = Thrown

\* the cases of tsTypeToString for keywords, literal types, references, unions
\* and arrays; every other node type takes the default case.  Of the built-in
\* generic names only Array is carried; a reference with type arguments to any
\* other name gives a generic node.  Reading typeNode.literal.type of a node
\* without a literal throws.
RECURSIVE tsTypeToStringThrowing(_, _)
tsTypeToStringThrowing(typeNode, registry) ==
  IF typeNode = <<>> THEN TString("unknown")
  ELSE LET t == typeNode[1] IN
    IF t.type \in DOMAIN KeywordText THEN TString(KeywordText[t.type])
    ELSE IF t.type = "TSLiteralType" THEN
      IF t.literal = <<>> THEN Thrown ELSE TLiteral(t.literal[1])
    ELSE IF t.type = "TSTypeReference" THEN
      LET refName == t.name
          iface == Find(registry, "interface", refName)
          typeAlias == Find(registry, "typeAlias", refName)
          enumDef == Find(registry, "enum", refName)
          typeArgs == [i \in 1..Len(t.types) |-> tsTypeToStringThrowing(<<t.types[i]>>, registry)]
      IN IF Len(t.types) > 0 THEN
           IF AnyThrown(typeArgs) THEN Thrown
           ELSE IF refName = "Array" THEN TArray(typeArgs[1])
           ELSE TGeneric(refName, typeArgs)
         ELSE IF iface # 0 THEN registry[iface].shape[1]
         ELSE IF typeAlias # 0 THEN registry[typeAlias].type[1]
         ELSE IF enumDef # 0 THEN
           TEnumRef(refName, [i \in 1..Len(registry[enumDef].members) |->
                                registry[enumDef].members[i].value])
         ELSE TString(refName)
    ELSE IF t.type = "TSUnionType" THEN
      LET types == [i \in 1..Len(t.types) |-> tsTypeToStringThrowing(<<t.types[i]>>, registry)]
      IN IF AnyThrown(types) THEN Thrown ELSE TUnion(types)
    ELSE IF t.type = "TSArrayType" THEN
      LET elementType == tsTypeToStringThrowing(<<t.types[1]>>, registry)
      IN IF elementType = Thrown THEN Thrown ELSE TArray(elementType)
    ELSE Thrown

RECURSIVE tsTypeToString(_, _)
tsTypeToString(typeNode, registry) ==
  IF typeNode = <<>> THEN TString("unknown")
  ELSE LET t == typeNode[1] IN
    IF t.type \in DOMAIN KeywordText THEN TString(KeywordText[t.type])
    ELSE IF t.type = "TSLiteralType" THEN
      IF t.literal = <<>> THEN Thrown ELSE TLiteral(t.literal[1])
    ELSE IF t.type = "TSTypeReference" THEN
      LET refName == t.name
          iface == Find(registry, "interface", refName)
          typeAlias == Find(registry, "typeAlias", refName)
          enumDef == Find(registry, "enum", refName)
          typeArgs == [i \in 1..Len(t.types) |-> tsTypeToString(<<t.types[i]>>, registry)]
      IN IF Len(t.types) > 0 THEN
           IF AnyThrown(typeArgs) THEN Thrown
           ELSE IF refName = "Array" THEN TArray(typeArgs[1])
           ELSE TGeneric(refName, typeArgs)
         ELSE IF iface # 0 THEN registry[iface].shape[1]
         ELSE IF typeAlias # 0 THEN registry[typeAlias].type[1]
         ELSE IF enumDef # 0 THEN
           TEnumRef(refName, [i \in 1..Len(registry[enumDef].members) |->
                                registry[enumDef].members[i].value])
         ELSE TString(refName)
    ELSE IF t.type = "TSUnionType" THEN
      LET types == [i \in 1..Len(t.types) |-> tsTypeToString(<<t.types[i]>>, registry)]
      IN IF AnyThrown(types) THEN Thrown ELSE TUnion(types)
    ELSE IF t.type = "TSArrayType" THEN
      LET elementType == tsTypeToString(<<t.types[1]>>, registry)
      IN IF elementType = Thrown THEN Thrown ELSE TArray(elementType)
    ELSE TString("unknown")

\* if (typeof type === 'string') { alias = find typeAlias named type; ... }
resolveAlias(type, registry) ==
  IF type.js = "string" /\ Find(registry, "typeAlias", type.name) # 0
    THEN registry[Find(registry, "typeAlias", type.name)].type[1]
    ELSE type

\* the members of an enum with their values: a literal initializer gives the
\* value, a member without one takes autoValue
RECURSIVE enumMembers(_, _, _, _)
enumMembers(members, i, autoValue, acc) ==
  IF i > Len(members) THEN acc
  ELSE LET m == members[i] IN
    IF m.initializer # <<>> THEN
      IF m.initializer[1].k = "expression" THEN enumMembers(members, i + 1, autoValue, acc)
      ELSE IF m.initializer[1].k = "negative" THEN
        enumMembers(members, i + 1, 1 - m.initializer[1].n,
                    Append(acc, [name |-> m.name, value |-> Num(0 - m.initializer[1].n)]))
      ELSE
        enumMembers(members, i + 1,
                    IF m.initializer[1].k = "number" THEN m.initializer[1].n + 1 ELSE autoValue,
                    Append(acc, [name |-> m.name, value |-> m.initializer[1]]))
    ELSE enumMembers(members, i + 1, autoValue + 1,
                     Append(acc, [name |-> m.name, value |-> Num(autoValue)]))

\* the shape of an interface: its property signatures, translated against the
\* registry as it stands
interfaceShape(members, registry) ==
  TShape([i \in 1..Len(members) |-> members[i].name],
         [i \in 1..Len(members) |->
            LET propType == tsTypeToString(members[i].typeAnnotation, registry)
            IN IF members[i].optional THEN TOptional(propType) ELSE propType],
         <<>>)

\* the typed parameters of a function declaration, in order; an untyped
\* parameter gives no entry, the this parameter is marked
functionParams(params, registry) ==
  LET one(p) ==
        IF p.name = "this" THEN
          <<[name |-> "this", type |-> tsTypeToString(p.typeAnnotation, registry),
             isThis |-> TRUE]>>
        ELSE IF p.typeAnnotation # <<>> THEN
          <<[name |-> p.name,
             type |-> resolveAlias(tsTypeToString(p.typeAnnotation, registry), registry),
             isThis |-> FALSE]>>
        ELSE <<>>
  IN Flatten([i \in 1..Len(params) |-> one(params[i])])

\* Pass 2, enter(node): variables, functions and classes
pass2Enter(node, registry) ==
  IF node.type = "VariableDeclaration" THEN
    IF node.typeAnnotation # <<>> THEN
      Append(registry,
             [Entry("variable", node.name) EXCEPT !.type =
                <<resolveAlias(tsTypeToString(node.typeAnnotation, registry), registry)>>])
    ELSE registry
  ELSE IF node.type = "FunctionDeclaration" THEN
    IF node.name = "" THEN registry
    ELSE
      LET params == functionParams(node.params, registry)
          returnType ==
            IF node.returnType # <<>>
              THEN resolveAlias(tsTypeToString(node.returnType, registry), registry)
              ELSE TString("any")
      IN IF Len(params) > 0 \/ returnType # TString("any") THEN
           Append(registry, [Entry("function", node.name)
                               EXCEPT !.params = params, !.returnType = <<returnType>>])
         ELSE registry
  ELSE IF node.type = "ClassDeclaration" THEN
    IF node.name = "" THEN registry
    ELSE Append(registry,
                [Entry("class", node.name) EXCEPT !.properties =
                   [i \in 1..Len(node.members) |->
                      [name |-> node.members[i].name,
                       type |-> tsTypeToString(node.members[i].typeAnnotation, registry)]]])
  ELSE registry

\* Pass 1, enter(node) extended with the branches of Pass 2
pass1EnterWithUsages(node, registry) ==
  IF node.type = "TSEnumDeclaration" THEN
    Append(registry, [Entry("enum", node.name)
                        EXCEPT !.members = enumMembers(node.members, 1, 0, <<>>)])
  ELSE IF node.type = "TSInterfaceDeclaration" THEN
    Append(registry, [Entry("interface", node.name)
                        EXCEPT !.shape = <<interfaceShape(node.members, registry)>>])
  ELSE IF node.type = "TSTypeAliasDeclaration" THEN
    Append(registry, [Entry("typeAlias", node.name)
                        EXCEPT !.type = <<tsTypeToString(node.typeAnnotation, registry)>>])
  ELSE pass2Enter(node, registry)

\* Pass 1, enter(node): enums, interfaces and type aliases
pass1Enter(node, registry) ==
  IF node.type = "TSEnumDeclaration" THEN
    Append(registry, [Entry("enum", node.name)
                        EXCEPT !.members = enumMembers(node.members, 1, 0, <<>>)])
  ELSE IF node.type = "TSInterfaceDeclaration" THEN
    Append(registry, [Entry("interface", node.name)
                        EXCEPT !.shape = <<interfaceShape(node.members, registry)>>])
  ELSE IF node.type = "TSTypeAliasDeclaration" THEN
    Append(registry, [Entry("typeAlias", node.name)
                        EXCEPT !.type = <<tsTypeToString(node.typeAnnotation, registry)>>])
  ELSE registry

\* a call of tsTypeToString threw while the entry was being built
EntryThrows(e) ==
  \/ e.type = <<Thrown>>
  \/ e.returnType = <<Thrown>>
  \/ e.shape # <<>> /\ \E i \in 1..Len(e.shape[1].types) :
                         e.shape[1].types[i] \in {Thrown, TOptional(Thrown)}
  \/ \E i \in 1..Len(e.params) : e.params[i].type = Thrown
  \/ \E i \in 1..Len(e.properties) : e.properties[i].type = Thrown
\* the handler did not return: the entry it was building threw
HandlerThrows(before, after) == Len(after) > Len(before) /\ EntryThrows(after[Len(after)])

\* one walk of the tree with a handler of Pass 1 or Pass 2
RECURSIVE walkPass1(_, _, _)
walkPass1(nodes, i, registry) ==
  IF i > Len(nodes) THEN registry
  ELSE walkPass1(nodes, i + 1, pass1Enter(nodes[i], registry))
RECURSIVE walkPass2(_, _, _)
walkPass2(nodes, i, registry) ==
  IF i > Len(nodes) THEN registry
  ELSE walkPass2(nodes, i + 1, pass2Enter(nodes[i], registry))

\* parseCode: the registry of a tree
parseCode(tree) ==
  walkPass2(Walk(tree.body), 1, walkPass1(Walk(tree.body), 1, <<>>))

(***************************************************************************)
(* The transform and the emitter.                                          *)
(***************************************************************************)
TSDeclarations == {"TSInterfaceDeclaration", "TSTypeAliasDeclaration", "TSEnumDeclaration"}

\* the strip walk, enter(node): annotations, return types and the this
\* parameter go, on the node and on everything below it
RECURSIVE strip(_)
strip(node) ==
  [node EXCEPT
     !.typeAnnotation = <<>>,
     !.returnType = <<>>,
     !.params = LET kept == SelectSeq(node.params, LAMBDA p : p.name # "this")
                IN [i \in 1..Len(kept) |-> [kept[i] EXCEPT !.typeAnnotation = <<>>]],
     !.members = [i \in 1..Len(node.members) |->
                    [node.members[i] EXCEPT !.typeAnnotation = <<>>, !.optional = FALSE]],
     !.body = [i \in 1..Len(node.body) |-> strip(node.body[i])]]

\* funcTypes[name]: the last function entry of that name, <<>> when none
funcTypes(registry, name) ==
  LET at == {i \in 1..Len(registry) : registry[i].kind = "function" /\ registry[i].name = name}
  IN IF at = {} THEN <<>> ELSE <<registry[CHOOSE i \in at : \A j \in at : j <= i]>>

\* the statements Parser.parse gives for the code of one compiled check
ParsedCheck(checkCode) ==
  [i \in 1..Len(checkCode) |->
     [ASTNode("IfStatement", "") EXCEPT !.check = <<checkCode[i]>>]]

ArgName(varName) == "__arg_" \o varName

\* the second walk, enter(node) on a function declaration whose registry entry
\* has parameters
enterFunction(node, registry, mode, rnd) ==
  LET entry == funcTypes(registry, node.name) IN
  IF node.type = "FunctionDeclaration" /\ node.name # "" /\ entry # <<>>
     /\ Len(entry[1].params) > 0 THEN
    LET params == entry[1].params
        checked == SelectSeq(params, LAMBDA p : ~p.isThis)
        checkStmts ==
          Flatten([i \in 1..Len(checked) |->
                     ParsedCheck(compileCheck(Expr(ArgName(checked[i].name)), checked[i].type,
                                              mode, checked[i].name, rnd, 0))])
        renamed ==
          [i \in 1..Len(node.params) |->
             IF i <= Len(params) /\ ~params[i].isThis /\ node.params[i].name # "this"
               THEN [node.params[i] EXCEPT !.name = ArgName(node.params[i].name)]
               ELSE node.params[i]]
        restoreStmts ==
          [i \in 1..Len(checked) |->
             VariableDeclaration("const", checked[i].name, <<>>, ArgName(checked[i].name))]
    IN [node EXCEPT !.params = renamed,
                    !.body[1].body = checkStmts \o restoreStmts \o node.body[1].body]
  ELSE node

RetName(returnCounter) == "__ret_" \o ToString(returnCounter)

\* the second walk, leave(node, parent): the statements that stand in the place
\* of node afterwards, and the counter of temporaries
leaveReturn(node, parent, registry, mode, rnd, returnCounter) ==
  IF node.type = "ReturnStatement" /\ parent.type = "BlockStatement"
     /\ parent.parent # <<>> /\ parent.parent[1].type = "FunctionDeclaration"
     /\ parent.parent[1].name # "" THEN
    LET entry == funcTypes(registry, parent.parent[1].name) IN
    IF entry # <<>> /\ entry[1].returnType[1] # TString("any") /\ node.argument # "" THEN
      LET retName == RetName(returnCounter)
          retDecl == VariableDeclaration("const", retName, <<>>, node.argument)
          checkAst == ParsedCheck(compileCheck(Expr(retName), entry[1].returnType[1], mode,
                                               "Return value", rnd, 0))
      IN [out |-> <<retDecl>> \o checkAst \o <<ReturnStatement(retName)>>,
          returnCounter |-> returnCounter + 1]
    ELSE [out |-> <<node>>, returnCounter |-> returnCounter]
  ELSE [out |-> <<node>>, returnCounter |-> returnCounter]

\* the second walk over one node and over a list of children of parent
RECURSIVE visit(_, _, _, _, _, _)
RECURSIVE visitList(_, _, _, _, _, _, _)
visit(node, parent, registry, mode, rnd, returnCounter) ==
  LET entered == enterFunction(node, registry, mode, rnd)
      below == visitList(entered.body, 1, entered, registry, mode, rnd, returnCounter)
  IN leaveReturn([entered EXCEPT !.body = below.out], parent, registry, mode, rnd,
                 below.returnCounter)
visitList(nodes, i, parent, registry, mode, rnd, returnCounter) ==
  IF i > Len(nodes) THEN [out |-> <<>>, returnCounter |-> returnCounter]
  ELSE LET first == visit(nodes[i], parent, registry, mode, rnd, returnCounter)
           rest == visitList(nodes, i + 1, parent, registry, mode, rnd, first.returnCounter)
       IN [out |-> first.out \o rest.out, returnCounter |-> rest.returnCounter]

\* transformAst: the top-level declarations of types go, the strip walk runs,
\* then the walk that inserts the guards
transformAst(tree, registry, mode, rnd) ==
  LET filtered == [tree EXCEPT !.body = SelectSeq(tree.body, LAMBDA n : n.type \notin TSDeclarations)]
      stripped == strip(filtered)
  IN visit(stripped, ASTNode("", ""), registry, mode, rnd, 0).out[1]

\* the runtime helpers of the prelude
HelperNames ==
  {"__TPJS_MODE__", "typeToString", "__handleCheckError__", "__checkUnion__",
   "__matchesType__", "__valueStr__"}

\* nothing was emitted yet
NoOutput == [helpers |-> {}, mode |-> "", enumDefs |-> <<>>, transformed |-> <<>>]

\* generate: the text is the prelude, the enum objects and the printed tree;
\* the printed tree is held as the sequence of its statements
generate(tree, registry, mode, rnd) ==
  LET transformedAst == transformAst(tree, registry, mode, rnd)
      enums == SelectSeq(registry, LAMBDA e : e.kind = "enum")
  IN [helpers |-> HelperNames,
      mode |-> mode,
      enumDefs |-> [i \in 1..Len(enums) |-> [name |-> enums[i].name, entries |-> enums[i].members]],
      transformed |-> transformedAst.body]


(***************************************************************************)
(* Inputs: the TypeNodes and the values the checks are run on.             *)
(***************************************************************************)
\* sequences over S of length 0..n
SeqsUpTo(S, n) == UNION {[1..m -> S] : m \in 0..n}

PrimitiveNames ==
  {"string", "number", "boolean", "bigint", "symbol", "object",
   "void", "never", "any", "unknown", "null", "undefined"}
Primitives == {TString(n) : n \in PrimitiveNames}
Literals == {TLiteral(Str("up")), TLiteral(Num(1)), TLiteral(Bool(TRUE))}
Direction == TEnumRef("Direction", <<Str("up"), Str("down")>>)
\* the member types composite TypeNodes are built from
MemberTypes == {TString("number"), TString("string"), TString("any"), TLiteral(Str("up"))}
ShapeK(t) == TShape(<<"k">>, <<t>>, <<>>)

OptionalTypes == {TOptional(t) : t \in MemberTypes}
UnionTypes == {TUnion(<<a, b>>) : a \in MemberTypes \cup {TString("null")}, b \in MemberTypes}
ArrayTypes == {TArray(t) : t \in MemberTypes} \cup {TReadonlyArray(TString("number"))}
TupleTypes ==
  {TTuple(<<a, b>>) : a \in {TString("string")},
                      b \in {TString("number"), TOptionalElement(TString("number")),
                             TLabeled("n", TRUE, TString("number")),
                             TLabeled("n", FALSE, TString("number")),
                             TRest(TArray(TString("number")))}}
ShapeTypes ==
  {ShapeK(t) : t \in MemberTypes \cup OptionalTypes}
  \cup {TShape(<<"k", "m">>, <<a, b>>, <<>>) :
          a \in {TString("number"), TOptional(TString("number"))},
          b \in {TString("string"), TOptional(TString("string"))}}
  \cup {TShape(<<>>, <<>>, <<>>),
        TShape(<<>>, <<>>, <<TString("number")>>),
        TShape(<<"k">>, <<TString("string")>>, <<TString("number")>>),
        \* interface I { __meta: number }
        TShape(<<"__meta">>, <<TString("number")>>, <<>>),
        \* interface S { kind: string; k: number }
        TShape(<<"kind", "k">>, <<TString("string"), TString("number")>>, <<>>)}
ContainerTypes ==
  {TMap(TString("string"), TString("number")), TSet(TString("number")),
   TRecord(TString("string"), TString("number")), TRecord(TString("string"), TString("any"))}
NestedTypes ==
  {TArray(TArray(TString("number"))),
   TArray(ShapeK(TString("number"))),
   ShapeK(TOptional(TArray(TString("number")))),
   ShapeK(TOptional(ShapeK(TString("number")))),
   ShapeK(TOptional(TUnion(<<TString("number"), TString("string")>>))),
   ShapeK(TOptional(TIntersection(<<TString("number"), TLiteral(Num(1))>>))),
   TUnion(<<ShapeK(TString("number")), TArray(TString("number"))>>),
   TUnion(<<TArray(TString("number")), TString("string")>>),
   TUnion(<<Direction, TString("number")>>),
   TUnion(<<TString("number"), ShapeK(TString("number"))>>),
   TUnion(<<ShapeK(TString("number")), TShape(<<"m">>, <<TString("string")>>, <<>>)>>),
   TIntersection(<<ShapeK(TString("number")), TShape(<<"m">>, <<TString("string")>>, <<>>)>>),
   TIntersection(<<TString("number"), TLiteral(Num(1))>>),
   TRecord(TString("string"), TRecord(TString("string"), TString("number")))}
\* the TypeNode of an unrecognized syntax node, and of a reference to a name
\* that no interface, alias or enum of the registry carries
UnmodeledNames == {"unknown", "Foo"}
\* such a type alone, as a union member, as an element type and as a property type
UnmodeledTypes ==
  UNION {{TString(u), TUnion(<<TString("number"), TString(u)>>), TArray(TString(u)),
          TTuple(<<TString("string"), TString(u)>>), ShapeK(TString(u))} : u \in UnmodeledNames}
Types ==
  Primitives \cup Literals \cup {Direction} \cup OptionalTypes \cup UnionTypes
  \cup ArrayTypes \cup TupleTypes \cup ShapeTypes \cup ContainerTypes \cup NestedTypes
  \cup UnmodeledTypes

AtomValues == {Undefined, Null, Num(1), Num(2), Str("a"), Str("up"), Bool(TRUE), BigInt(1)}
ElementValues == {Num(1), Str("a")}
ArrayValues == {Arr(e) : e \in SeqsUpTo(ElementValues, MaxLen)}
PropValues == {Num(1), Str("a"), Str("up"), Undefined, Null, Arr(<<Num(1)>>),
               Arr(<<Str("a"), Str("a")>>), Obj(<<"k">>, <<Num(1)>>), Obj(<<"k">>, <<Str("a")>>)}
ObjectValues ==
  {Obj(<<>>, <<>>)} \cup {Obj(<<"k">>, <<x>>) : x \in PropValues}
  \cup {Obj(<<"m">>, <<x>>) : x \in {Num(1), Str("a")}}
  \cup {Obj(<<"__meta">>, <<x>>) : x \in {Num(1), Str("a")}}
  \cup {Obj(<<"kind">>, <<Str("a")>>), Obj(<<"kind", "k">>, <<Str("a"), Num(1)>>)}
  \cup {Obj(<<"k", "m">>, <<x, y>>) : x \in {Num(1), Str("a")}, y \in {Num(1), Str("a")}}
ContainerValues ==
  {MapOf(<<>>), MapOf(<<Arr(<<Str("a"), Num(1)>>)>>), MapOf(<<Arr(<<Num(1), Num(1)>>)>>),
   SetOf(<<>>), SetOf(<<Num(1)>>), SetOf(<<Num(1), Str("a")>>)}
NestedValues ==
  {Arr(<<Arr(<<Num(1), Num(2)>>)>>), Arr(<<Arr(<<Num(1)>>), Arr(<<Str("a")>>)>>),
   Arr(<<Obj(<<"k">>, <<Num(1)>>)>>), Arr(<<Obj(<<"k">>, <<Str("a")>>)>>),
   Obj(<<"a">>, <<Obj(<<"b">>, <<Num(1)>>)>>), Obj(<<"a">>, <<Obj(<<"b">>, <<Str("a")>>)>>)}
Values == AtomValues \cup ArrayValues \cup ObjectValues \cup ContainerValues \cup NestedValues

Modes == {"development", "production", "strict"}
\* the draws of Math.random(), one per nesting depth of generated loops
RandomDraws == [1..2 -> 0..(RandRange - 1)]


(***************************************************************************)
(* Inputs: the programs the registry builder and the emitter are run on.   *)
(***************************************************************************)
NumberKeyword == TSKeyword("TSNumberKeyword")
\* interface P { k: number }
IfaceP == TSInterfaceDeclaration("P", <<Member("k", FALSE, <<NumberKeyword>>, <<>>)>>)
\* type A = P[]
AliasA == TSTypeAliasDeclaration("A", TSArrayType(TSTypeReference("P")))
\* enum E { Up, Down }
EnumE ==
  TSEnumDeclaration("E", <<Member("Up", FALSE, <<>>, <<>>), Member("Down", FALSE, <<>>, <<>>)>>)
\* enum F { A = 1 << 1, B, C = -1, D }
EnumF ==
  TSEnumDeclaration("F", <<Member("A", FALSE, <<>>, <<ComputedInitializer(2)>>),
                           Member("B", FALSE, <<>>, <<>>),
                           Member("C", FALSE, <<>>, <<UnaryMinus(1)>>),
                           Member("D", FALSE, <<>>, <<>>)>>)
\* export interface P { k: number }
ExportP == ExportNamedDeclaration(IfaceP)
\* type Box<T> = T[]
AliasBox == TSTypeAliasDeclaration("Box", TSArrayType(TSTypeReference("T")))
\* let w: Box<number> = []
VarW == VariableDeclaration("let", "w", <<TSGenericReference("Box", <<NumberKeyword>>)>>, "[]")
\* let v: P = {}
VarV == VariableDeclaration("let", "v", <<TSTypeReference("P")>>, "{}")
\* class C { p: A; q }
ClassC ==
  ClassDeclaration("C", <<Member("p", FALSE, <<TSTypeReference("A")>>, <<>>),
                          Member("q", FALSE, <<>>, <<>>)>>)
\* a type predicate, a node type tsTypeToString has no case for
TypePredicate == TSNode("TSTypePredicate", "s", <<>>, <<TSKeyword("TSStringKeyword")>>)
\* function isStr(s): s is string { let v: P = {}; return s; }
FuncIsStr ==
  FunctionDeclaration("isStr", <<Identifier("s", <<>>)>>, <<TypePredicate>>,
                      <<VarV, ReturnStatement("s")>>)
\* function add(a: number, b: E): A { if (a) { return b; } return a; }
FuncAdd ==
  FunctionDeclaration("add",
    <<Identifier("a", <<NumberKeyword>>), Identifier("b", <<TSTypeReference("E")>>)>>,
    <<TSTypeReference("A")>>,
    <<IfStatement(BlockStatement(<<ReturnStatement("b")>>)), ReturnStatement("a")>>)
\* function mix(a, b: number) { type L = number; return b; }
FuncMix ==
  FunctionDeclaration("mix",
    <<Identifier("a", <<>>), Identifier("b", <<NumberKeyword>>)>>,
    <<>>,
    <<TSTypeAliasDeclaration("L", NumberKeyword), ReturnStatement("b")>>)
\* function move(this: P, d: "up" | "down") { go(d); }
FuncMove ==
  FunctionDeclaration("move",
    <<Identifier("this", <<TSTypeReference("P")>>),
      Identifier("d", <<TSUnionType(<<TSLiteralType(Str("up")), TSLiteralType(Str("down"))>>)>>)>>,
    <<>>,
    <<ExpressionStatement("go(d)")>>)

\* function one(): void { return 1; }
FuncOne ==
  FunctionDeclaration("one", <<>>, <<TSKeyword("TSVoidKeyword")>>, <<ReturnStatement("1")>>)
\* let n: number = 1n
VarN == VariableDeclaration("let", "n", <<NumberKeyword>>, "1n")

\* function step(d: "up" | "down"): "up" | "down" { return d; }
Direction2 == TSUnionType(<<TSLiteralType(Str("up")), TSLiteralType(Str("down"))>>)
FuncStep ==
  FunctionDeclaration("step", <<Identifier("d", <<Direction2>>)>>, <<Direction2>>,
                      <<ReturnStatement("d")>>)
\* function label(a: number): string { return a; }
FuncLabel ==
  FunctionDeclaration("label", <<Identifier("a", <<NumberKeyword>>)>>,
                      <<TSKeyword("TSStringKeyword")>>, <<ReturnStatement("a")>>)

\* function tag(): string { const g = () => { return 1; }; return 1; }
FuncTag ==
  FunctionDeclaration("tag", <<>>, <<TSKeyword("TSStringKeyword")>>,
    <<FunctionVariable("const", "g", ArrowFunctionExpression(<<ReturnStatement("1")>>)),
      ReturnStatement("1")>>)

\* function pair() { let q: number = 1; const g = () => { let q: number[] = []; }; }
FuncPair ==
  FunctionDeclaration("pair", <<>>, <<>>,
    <<VariableDeclaration("let", "q", <<NumberKeyword>>, "1"),
      FunctionVariable("const", "g", ArrowFunctionExpression(
        <<VariableDeclaration("let", "q", <<TSArrayType(NumberKeyword)>>, "[]")>>))>>)

Declarations ==
  {IfaceP, AliasA, EnumE, ExportP, VarV, ClassC, FuncAdd, FuncMix, FuncMove, FuncIsStr,
   AliasBox, VarW, FuncOne, VarN, FuncStep, FuncLabel, FuncTag, EnumF, FuncPair}
\* a module declares a binding once: no declaration is written twice
NoRedeclaration(body) == \A i, j \in 1..Len(body) : i < j => body[i] # body[j]
\* the programs of one up to MaxDecls top-level declarations
Programs ==
  {Program(body) : body \in {b \in SeqsUpTo(Declarations, MaxDecls) \ {<<>>} : NoRedeclaration(b)}}
ParamNames == {"a", "b", "d", "s"}


\* the name the checked value is bound to, and the diagnostic path
VarName == "x"

\* a completion of a function body: type is "return" or "throw", value the
\* returned value, error the name of what was thrown
Completion(type, value, error) == [type |-> type, value |-> value, error |-> error]
\* no function of the output was called
NoCall ==
  [callee |-> "", arguments |-> <<>>, completion |-> Completion("", Undefined, ""),
   erased |-> Completion("", Undefined, "")]

\* no command line is running: the functions are called as a library
NoCli ==
  /\ isProd = FALSE
  /\ tmpFile = <<>>
  /\ imported = FALSE
  /\ exitCode = "running"

Start(T, V, M) ==
  /\ pc = "input"
  /\ declType \in T
  /\ initValue \in V
  /\ bakedMode \in M
  /\ ambientMode = "development"
  /\ guardCode = <<>>
  /\ guardRun = NoRun
  /\ rtVerdict = "unset"
  /\ diagnostics = <<>>
  /\ analyses = <<>>
  /\ source = Program(<<>>)
  /\ ast = Program(<<>>)
  /\ typeRegistry = <<>>
  /\ cursor = 0
  /\ output = NoOutput
  /\ emitted = <<>>
  /\ NoCli
  /\ lastCall = NoCall

\* generate in the given mode: compileCheck turns the declared type into a guard
Compile ==
  /\ pc = "input"
  /\ \E rnd \in RandomDraws :
       guardCode' = compileCheck(Expr(VarName), declType, bakedMode, VarName, rnd, 0)
  /\ pc' = "compiled"
  /\ UNCHANGED <<declType, initValue, bakedMode, ambientMode, guardRun, rtVerdict, diagnostics,
                 analyses>>
  /\ UNCHANGED compileVars
  /\ UNCHANGED cliVars
  /\ UNCHANGED lastCall

\* the emitted guard runs on the value
Guard ==
  /\ pc = "compiled"
  /\ guardRun' = RunGuard(guardCode, VarName, initValue, bakedMode)
  /\ pc' = "guarded"
  /\ UNCHANGED <<declType, initValue, bakedMode, ambientMode, guardCode, rtVerdict, diagnostics,
                 analyses>>
  /\ UNCHANGED compileVars
  /\ UNCHANGED cliVars
  /\ UNCHANGED lastCall

\* the runtime Matcher is asked about the same value
Match ==
  /\ pc = "guarded"
  /\ rtVerdict' = IF __matchesType__(initValue, JSONRoundTrip(declType)) THEN "true" ELSE "false"
  /\ pc' = "matched"
  /\ UNCHANGED <<declType, initValue, bakedMode, ambientMode, guardCode, guardRun, diagnostics,
                 analyses>>
  /\ UNCHANGED compileVars
  /\ UNCHANGED cliVars
  /\ UNCHANGED lastCall

\* staticAnalyze on the declaration  let x: T = <value>
Analyze ==
  /\ pc = "matched"
  /\ LET outcome == Outcome(checkInitializer(VarName, ExprOf(initValue), declType, <<>>))
     IN diagnostics' = outcome.errors /\ analyses' = Append(analyses, outcome)
  /\ pc' = "analyzed"
  /\ UNCHANGED <<declType, initValue, bakedMode, ambientMode, guardCode, guardRun, rtVerdict>>
  /\ UNCHANGED compileVars
  /\ UNCHANGED cliVars
  /\ UNCHANGED lastCall

\* the environment of the running program changes
SetAmbient ==
  /\ pc \in {"input", "compiled"}
  /\ \E m \in Modes : m # ambientMode /\ ambientMode' = m
  /\ UNCHANGED <<pc, declType, initValue, bakedMode, guardCode, guardRun, rtVerdict, diagnostics,
                 analyses>>
  /\ UNCHANGED compileVars
  /\ UNCHANGED cliVars
  /\ UNCHANGED lastCall

GuardInit == Start(Types, Values, {"development"})
GuardNext == Compile \/ Guard \/ Match \/ Analyze
GuardSpec == GuardInit /\ [][GuardNext]_vars

HookInit ==
  Start(Primitives \cup UnionTypes \cup {TIntersection(<<TString("number"), TLiteral(Num(1))>>)},
        AtomValues, Modes)
HookNext == Compile \/ Guard \/ Match \/ Analyze \/ SetAmbient
HookSpec == HookInit /\ [][HookNext]_vars


(***************************************************************************)
(* staticAnalyze on a whole tree.                                          *)
(***************************************************************************)
\* the expression node of an initializer or a return argument, from its text
ParseExpression(text) ==
  CASE text = "{}" -> ENode("ObjectExpression", Undefined, <<>>, <<>>)
    [] text = "[]" -> ENode("ArrayExpression", Undefined, <<>>, <<>>)
    [] text = "1" -> ENode("Literal", Num(1), <<>>, <<>>)
    [] text = "1n" -> ENode("Literal", BigInt(1), <<>>, <<>>)
    [] text \in ParamNames -> ENode("Identifier", Undefined, <<>>, <<>>)
    [] OTHER -> ENode("CallExpression", Undefined, <<>>, <<>>)

\* the map a forEach over the registry fills: the entry written last for a key
\* is the one a lookup gives, <<>> when no entry wrote the key
RECURSIVE LastEntry(_, _, _, _)
LastEntry(registry, kind, name, i) ==
  IF i = 0 THEN <<>>
  ELSE IF registry[i].kind = kind /\ registry[i].name = name THEN <<registry[i]>>
  ELSE LastEntry(registry, kind, name, i - 1)
\* varTypes[name]
varTypes(registry, name) ==
  LET e == LastEntry(registry, "variable", name, Len(registry))
  IN IF e = <<>> THEN <<>> ELSE e[1].type
\* funcReturnTypes[name]: the entries whose returnType is 'any' write nothing
funcReturnTypes(registry, name) ==
  LET kept == SelectSeq(registry, LAMBDA e : e.kind = "function" /\ e.returnType # <<TString("any")>>)
      e == LastEntry(kept, "function", name, Len(kept))
  IN IF e = <<>> THEN <<>> ELSE e[1].returnType

\* enter(node) of the walk of staticAnalyze, after currentFuncName is set
analyzeEnter(node, registry, currentFuncName, errors) ==
  IF node.type = "VariableDeclaration" THEN
    IF node.init # "" /\ varTypes(registry, node.name) # <<>>
      THEN checkInitializer(node.name, ParseExpression(node.init),
                            varTypes(registry, node.name)[1], errors)
      ELSE errors
  ELSE IF node.type = "ReturnStatement" THEN
    IF node.argument # "" /\ currentFuncName # ""
         /\ funcReturnTypes(registry, currentFuncName) # <<>>
      THEN
        LET returnType == funcReturnTypes(registry, currentFuncName)[1]
            argument == ParseExpression(node.argument)
            afterLiteral ==
              IF argument.type = "Literal" /\ ~matchesType(argument.value, returnType)
                THEN Report(errors, "return", currentFuncName, argument.value)
                ELSE errors
        IN IF returnType = TString("void") /\ argument.type # "Identifier"
             THEN Append(afterLiteral, Diag("void", currentFuncName, ""))
             ELSE afterLiteral
      ELSE errors
  ELSE errors

\* the node types that set and clear currentFuncName
FunctionNodes == {"FunctionDeclaration", "FunctionExpression", "ArrowFunctionExpression"}
\* walk(ast, {enter, leave}): currentFuncName is the name of the function
\* entered last, null ("") for one without a name and once a function has
\* been left
RECURSIVE analyzeWalk(_, _, _, _)
analyzeWalk(nodes, registry, currentFuncName, errors) ==
  IF nodes = <<>> THEN [errors |-> errors, currentFuncName |-> currentFuncName]
  ELSE
    LET node == Head(nodes)
        entered == IF node.type \in FunctionNodes THEN node.name ELSE currentFuncName
        inner == analyzeWalk(node.body, registry, entered,
                             analyzeEnter(node, registry, entered, errors))
        left == IF node.type \in FunctionNodes THEN "" ELSE inner.currentFuncName
    IN analyzeWalk(Tail(nodes), registry, left, inner.errors)

\* a staticAnalyze whose list of errors outlives the call
staticAnalyzeKeepingErrors(registry, tree) ==
  Outcome(analyzeWalk(tree.body, registry, "", diagnostics).errors)

\* staticAnalyze(typeRegistry, ast): const errors = [] at every call
staticAnalyze(registry, tree) ==
  Outcome(analyzeWalk(tree.body, registry, "", <<>>).errors)


(***************************************************************************)
(* The compilation of a unit: parseCode, one step per node the two walks   *)
(* enter, then generate.                                                   *)
(***************************************************************************)
CompileInit ==
  /\ pc = "pass1"
  /\ source \in Programs
  /\ ast = source
  /\ typeRegistry = <<>>
  /\ cursor = 1
  /\ output = NoOutput
  /\ emitted = <<>>
  /\ declType = TString("any")
  /\ initValue = Undefined
  /\ bakedMode = "development"
  /\ ambientMode = "development"
  /\ guardCode = <<>>
  /\ guardRun = NoRun
  /\ rtVerdict = "unset"
  /\ diagnostics = <<>>
  /\ analyses = <<>>
  /\ NoCli
  /\ lastCall = NoCall

\* Pass 1 enters the next node; after the last node the second walk starts.
\* Nothing catches what a handler throws: parseCode ends there.
Pass1Enter ==
  /\ pc = "pass1"
  /\ LET registry == pass1Enter(Walk(ast.body)[cursor], typeRegistry) IN
       IF HandlerThrows(typeRegistry, registry)
         THEN pc' = "aborted" /\ UNCHANGED <<typeRegistry, cursor>>
       ELSE /\ typeRegistry' = registry
            /\ IF cursor < Len(Walk(ast.body))
                 THEN cursor' = cursor + 1 /\ pc' = "pass1"
                 ELSE cursor' = 1 /\ pc' = "pass2"
  /\ UNCHANGED <<source, ast, output, emitted>>
  /\ UNCHANGED checkVars
  /\ UNCHANGED cliVars
  /\ UNCHANGED lastCall

\* Pass 2 enters the next node; after the last node parseCode returns
Pass2Enter ==
  /\ pc = "pass2"
  /\ LET registry == pass2Enter(Walk(ast.body)[cursor], typeRegistry) IN
       IF HandlerThrows(typeRegistry, registry)
         THEN pc' = "aborted" /\ UNCHANGED <<typeRegistry, cursor>>
       ELSE /\ typeRegistry' = registry
            /\ IF cursor < Len(Walk(ast.body))
                 THEN cursor' = cursor + 1 /\ pc' = "pass2"
                 ELSE cursor' = 1 /\ pc' = "parsed"
  /\ UNCHANGED <<source, ast, output, emitted>>
  /\ UNCHANGED checkVars
  /\ UNCHANGED cliVars
  /\ UNCHANGED lastCall

\* staticAnalyze(typeRegistry, ast), which the command line runs on the parsed
\* unit before generate; the tree and the registry are only read
StaticAnalyze ==
  /\ pc \in {"parsed", "analyzed"}
  /\ Len(analyses) < MaxRuns
  /\ LET outcome == staticAnalyze(typeRegistry, ast)
     IN diagnostics' = outcome.errors /\ analyses' = Append(analyses, outcome)
  /\ pc' = "analyzed"
  /\ UNCHANGED compileVars
  /\ UNCHANGED cliVars
  /\ UNCHANGED lastCall
  /\ UNCHANGED <<declType, initValue, bakedMode, ambientMode, guardCode, guardRun, rtVerdict>>

\* generate(ast, typeRegistry, mode): the tree is transformed in place
Generate ==
  /\ pc \in {"parsed", "analyzed"}
  /\ \E m \in {"development", "production"}, rnd \in RandomDraws :
       /\ bakedMode' = m
       /\ ast' = transformAst(ast, typeRegistry, m, rnd)
       /\ output' = generate(ast, typeRegistry, m, rnd)
       /\ emitted' = Append(emitted, output')
  /\ pc' = "generated"
  /\ UNCHANGED <<source, typeRegistry, cursor>>
  /\ UNCHANGED <<declType, initValue, ambientMode, guardCode, guardRun, rtVerdict, diagnostics,
                 analyses>>
  /\ UNCHANGED cliVars
  /\ UNCHANGED lastCall

CompileNext == Pass1Enter \/ Pass2Enter \/ StaticAnalyze \/ Generate
CompileSpec == CompileInit /\ [][CompileNext]_vars

\* generate called again with the tree and the registry of an earlier call: the
\* call starts from the tree the earlier call left
GenerateAgain ==
  /\ pc = "generated"
  /\ Len(emitted) < MaxGenerates
  /\ \E m \in {"development", "production"}, rnd \in RandomDraws :
       /\ bakedMode' = m
       /\ ast' = transformAst(ast, typeRegistry, m, rnd)
       /\ output' = generate(ast, typeRegistry, m, rnd)
       /\ emitted' = Append(emitted, output')
  /\ pc' = "generated"
  /\ UNCHANGED <<source, typeRegistry, cursor>>
  /\ UNCHANGED <<declType, initValue, ambientMode, guardCode, guardRun, rtVerdict, diagnostics,
                 analyses>>
  /\ UNCHANGED cliVars
  /\ UNCHANGED lastCall

\* a unit compiled once, then generated from again
RepeatNext == Pass1Enter \/ Pass2Enter \/ StaticAnalyze \/ Generate \/ GenerateAgain
RepeatSpec == CompileInit /\ [][RepeatNext]_vars


(***************************************************************************)
(* A call of a function of the output when the output runs.                *)
(***************************************************************************)
\* the value of an expression written as text, in a scope
EvalText(text, env) ==
  LET node == ParseExpression(text) IN
  CASE node.type = "Literal" -> node.value
    [] node.type = "ObjectExpression" -> Obj(<<>>, <<>>)
    [] node.type = "ArrayExpression" -> Arr(<<>>)
    [] OTHER -> Lookup(env, text)

\* the scope of a call: every parameter bound to its argument, undefined when
\* the argument is missing
BindParams(params, arguments) ==
  [n \in {params[i].name : i \in 1..Len(params)} |->
     LET i == CHOOSE j \in 1..Len(params) :
                params[j].name = n /\ \A k \in 1..Len(params) : params[k].name = n => k <= j
     IN IF i <= Len(arguments) THEN arguments[i] ELSE Undefined]

\* the statements of a function body, run in order: guards, declarations and
\* returns; run records the calls of __handleCheckError__
RECURSIVE ExecBody(_, _, _, _)
ExecBody(stmts, env, mode, run) ==
  IF stmts = <<>> THEN [run |-> run, completion |-> Completion("return", Undefined, "")]
  ELSE
    LET st == Head(stmts) IN
    IF st.check # <<>> THEN
      LET after == ExecStmts(st.check, env, mode, run) IN
      IF after.error # ""
        THEN [run |-> after, completion |-> Completion("throw", Undefined, after.error)]
        ELSE ExecBody(Tail(stmts), env, mode, after)
    ELSE IF st.type = "VariableDeclaration" THEN
      LET v == EvalText(st.init, env) IN
      IF IsErr(v) THEN [run |-> run, completion |-> Completion("throw", Undefined, v.k)]
      ELSE ExecBody(Tail(stmts), (st.name :> v) @@ env, mode, run)
    ELSE IF st.type = "ReturnStatement" THEN
      LET v == IF st.argument = "" THEN Undefined ELSE EvalText(st.argument, env) IN
      IF IsErr(v) THEN [run |-> run, completion |-> Completion("throw", Undefined, v.k)]
      ELSE [run |-> run, completion |-> Completion("return", v, "")]
    ELSE ExecBody(Tail(stmts), env, mode, run)

\* f(...arguments) for a function declaration f
CallFunction(f, arguments, mode) ==
  ExecBody(f.body[1].body, BindParams(f.params, arguments), mode, NoRun)

\* the functions whose body is made of guards, declarations and returns only
Callable(f) ==
  /\ f.type = "FunctionDeclaration"
  /\ \A i \in 1..Len(f.body[1].body) :
       LET st == f.body[1].body[i] IN
       \/ st.type = "IfStatement" /\ st.check # <<>>
       \/ st.type \in {"VariableDeclaration", "ReturnStatement"} /\ st.body = <<>>
\* the values a call passes
ArgumentValues == {Num(1), Str("up"), Str("oops")}

\* the written output runs and a top-level function of it is called; erased is
\* what the same call gives for the function as written, without its types
Call ==
  /\ pc = "generated"
  /\ \E i \in 1..Len(output.transformed), j \in 1..Len(source.body) :
       LET f == output.transformed[i]
           written == source.body[j]
       IN /\ Callable(f)
          /\ written.type = "FunctionDeclaration" /\ written.name = f.name
          /\ \E arguments \in [1..Len(written.params) -> ArgumentValues] :
               LET outcome == CallFunction(f, arguments, output.mode)
               IN /\ guardRun' = outcome.run
                  /\ lastCall' =
                       [callee |-> f.name, arguments |-> arguments,
                        completion |-> outcome.completion,
                        erased |-> CallFunction(strip(written), arguments, output.mode).completion]
  /\ pc' = "called"
  /\ UNCHANGED <<declType, initValue, bakedMode, ambientMode, guardCode, rtVerdict, diagnostics,
                 analyses>>
  /\ UNCHANGED compileVars
  /\ UNCHANGED cliVars

\* a unit compiled, then run
CallNext == Pass1Enter \/ Pass2Enter \/ StaticAnalyze \/ Generate \/ Call
CallSpec == CompileInit /\ [][CallNext]_vars


(***************************************************************************)
(* The command line: typedjs <file.tjs> [--prod].  One step per statement  *)
(* of the script after the source file has been read.                      *)
(***************************************************************************)
CliInit ==
  /\ pc = "read"
  /\ source \in Programs
  /\ isProd \in BOOLEAN
  /\ ast = Program(<<>>)
  /\ typeRegistry = <<>>
  /\ cursor = 0
  /\ output = NoOutput
  /\ emitted = <<>>
  /\ tmpFile = <<>>
  /\ imported = FALSE
  /\ exitCode = "running"
  /\ lastCall = NoCall
  /\ declType = TString("any")
  /\ initValue = Undefined
  /\ bakedMode = "development"
  /\ ambientMode = "development"
  /\ guardCode = <<>>
  /\ guardRun = NoRun
  /\ rtVerdict = "unset"
  /\ diagnostics = <<>>
  /\ analyses = <<>>

\* const { ast, typeRegistry } = parseCode(source)
CliParseCode ==
  /\ pc = "read"
  /\ ast' = source
  /\ typeRegistry' = parseCode(source)
  /\ pc' = "parsed"
  /\ UNCHANGED <<source, cursor, output, emitted>>
  /\ UNCHANGED checkVars
  /\ UNCHANGED cliVars
  /\ UNCHANGED lastCall

\* const staticErrors = staticAnalyze(typeRegistry, ast); what the call throws
\* is caught nowhere and ends the process
CliStaticAnalyze ==
  /\ pc = "parsed"
  /\ LET outcome == staticAnalyze(typeRegistry, ast) IN
       /\ diagnostics' = outcome.errors
       /\ analyses' = Append(analyses, outcome)
       /\ IF outcome.ok = "TypeError"
            THEN pc' = "exited" /\ exitCode' = "TypeError"
            ELSE pc' = "analyzed" /\ exitCode' = exitCode
  /\ UNCHANGED <<declType, initValue, bakedMode, ambientMode, guardCode, guardRun, rtVerdict>>
  /\ UNCHANGED compileVars
  /\ UNCHANGED <<isProd, tmpFile, imported>>
  /\ UNCHANGED lastCall

\* if (!staticErrors && isProd) process.exit(1)
CliExit ==
  /\ pc = "analyzed"
  /\ analyses[Len(analyses)].ok = "false" /\ isProd
  /\ pc' = "exited"
  /\ exitCode' = "1"
  /\ UNCHANGED checkVars
  /\ UNCHANGED compileVars
  /\ UNCHANGED <<isProd, tmpFile, imported>>
  /\ UNCHANGED lastCall

\* const output = generate(ast, typeRegistry, isProd ? 'production' : 'development')
CliGenerate ==
  /\ pc = "analyzed"
  /\ ~(analyses[Len(analyses)].ok = "false" /\ isProd)
  /\ \E rnd \in RandomDraws :
       LET mode == IF isProd THEN "production" ELSE "development" IN
       /\ bakedMode' = mode
       /\ ast' = transformAst(ast, typeRegistry, mode, rnd)
       /\ output' = generate(ast, typeRegistry, mode, rnd)
       /\ emitted' = Append(emitted, output')
  /\ pc' = "generated"
  /\ UNCHANGED <<source, typeRegistry, cursor>>
  /\ UNCHANGED <<declType, initValue, ambientMode, guardCode, guardRun, rtVerdict, diagnostics,
                 analyses>>
  /\ UNCHANGED cliVars
  /\ UNCHANGED lastCall

\* fs.writeFileSync(tmpFile, output)
CliWriteFile ==
  /\ pc = "generated"
  /\ tmpFile' = <<output>>
  /\ pc' = "written"
  /\ UNCHANGED checkVars
  /\ UNCHANGED compileVars
  /\ UNCHANGED <<isProd, imported, exitCode>>
  /\ UNCHANGED lastCall

\* await import(tmpFile): the written program runs
CliImport ==
  /\ pc = "written"
  /\ imported' = TRUE
  /\ pc' = "imported"
  /\ UNCHANGED checkVars
  /\ UNCHANGED compileVars
  /\ UNCHANGED <<isProd, tmpFile, exitCode>>
  /\ UNCHANGED lastCall

\* finally { fs.unlinkSync(tmpFile) }, and the script ends
CliUnlink ==
  /\ pc = "imported"
  /\ tmpFile' = <<>>
  /\ pc' = "exited"
  /\ exitCode' = "0"
  /\ UNCHANGED checkVars
  /\ UNCHANGED compileVars
  /\ UNCHANGED <<isProd, imported>>
  /\ UNCHANGED lastCall

CliNext ==
  CliParseCode \/ CliStaticAnalyze \/ CliExit \/ CliGenerate \/ CliWriteFile \/ CliImport
  \/ CliUnlink
CliSpec == CliInit /\ [][CliNext]_vars


(***************************************************************************)
(* Properties of the guards, the Matcher and the analyzer.                 *)
(***************************************************************************)
GuardRan == pc \in {"guarded", "matched", "analyzed"}
Flagged == guardRun.calls # <<>>
IsLiteralValue(v) == v.k \in {"number", "string", "boolean", "null", "bigint"}

\* C2: the compiled guard for a type calls the error hook at least once on a
\* value if and only if the runtime Matcher rejects that value for the type.
C2_GuardAgreesWithMatcher ==
  pc \in {"matched", "analyzed"} => (Flagged <=> rtVerdict = "false")

\* C3: for a literal value the analyzer's matchesType gives the verdict of the
\* runtime Matcher: the literal initializer gets a diagnostic exactly when the
\* runtime Matcher rejects it.
C3_AnalyzerAgreesWithMatcher ==
  (pc = "analyzed" /\ IsLiteralValue(initValue)) => (diagnostics # <<>> <=> rtVerdict = "false")

\* the shape {k?: U}
IsOptionalK(t) ==
  /\ t.js = "shape" /\ t.keys = <<"k">> /\ t.index = <<>>
  /\ KindOf(t.types[1]) = "optional"
OmitsK(v) == v.k = "object" /\ IndexOfKey(v.ks, "k") = 0
SuppliesViolatingK(v, t) ==
  /\ v.k = "object" /\ IndexOfKey(v.ks, "k") > 0
  /\ GetProp(v, "k").k # "undefined"
  /\ ~__matchesType__(GetProp(v, "k"), t.types[1].types[1])

\* C9: for the shape {k?: U}, a value that omits k gives no diagnostic and no
\* hook call; a value whose k violates U gives exactly one diagnostic and
\* exactly one hook call, each naming k.
C9_OptionalSemantics ==
  (pc = "analyzed" /\ IsOptionalK(declType)) =>
    /\ OmitsK(initValue) => (diagnostics = <<>> /\ guardRun.calls = <<>>)
    /\ SuppliesViolatingK(initValue, declType) =>
         /\ Len(diagnostics) = 1 /\ diagnostics[1].name = VarName \o ".k"
         /\ Len(guardRun.calls) = 1 /\ guardRun.calls[1].name = VarName \o ".k"

IsUnionOfTwo(t) == KindOf(t) = "union" /\ Len(t.types) = 2
\* the value matches the second member of the union and not the first
MatchesOnlySecond(v, t) ==
  __matchesType__(v, t.types[2]) /\ ~__matchesType__(v, t.types[1])

\* C10: for a union A | B, a value that matches B and not A is not flagged:
\* the compiled guard makes no hook call and the analyzer pushes no diagnostic.
C10_UnionShortCircuit ==
  (pc = "analyzed" /\ IsUnionOfTwo(declType) /\ MatchesOnlySecond(initValue, declType)) =>
    (guardRun.calls = <<>> /\ diagnostics = <<>>)

\* a literal that matches only the second member of a union went through the
\* guard and the analyzer
C10_Witness ==
  /\ pc = "analyzed" /\ IsUnionOfTwo(declType) /\ IsLiteralValue(initValue)
  /\ MatchesOnlySecond(initValue, declType)
  /\ matchesType(initValue, declType.types[2]) /\ ~matchesType(initValue, declType.types[1])
  /\ guardRun.error = ""

\* C4: the error hook throws exactly when the mode written into the prelude is
\* production or strict; in development it logs one warning per call, does not
\* throw and the guard goes on; the mode held by the environment has no part.
C4_HookByBakedMode ==
  GuardRan =>
    /\ guardRun.error = "TypedJS" <=> (Flagged /\ bakedMode \in {"production", "strict"})
    /\ bakedMode = "development" => (Len(guardRun.log) = Len(guardRun.calls) /\ guardRun.error = "")
    /\ bakedMode \in {"production", "strict"} => (guardRun.log = <<>> /\ Len(guardRun.calls) <= 1)

\* a guard reported twice in development while the environment said production
C4_Witness ==
  /\ GuardRan /\ bakedMode = "development" /\ ambientMode = "production"
  /\ Len(guardRun.calls) = 2 /\ Len(guardRun.log) = 2 /\ guardRun.error = ""

(***************************************************************************)
(* Properties of the registry builder and of the emitter.                  *)
(***************************************************************************)
IsDefinitionNode(n) == n.type \in TSDeclarations
IsDefinition(e) == e.kind \in {"enum", "interface", "typeAlias"}
IsUsage(e) == e.kind \in {"variable", "function", "class"}
\* the entries Pass 2 pushed
Usages(registry) == {registry[i] : i \in {j \in 1..Len(registry) : IsUsage(registry[j])}}
\* the statement declares a type, itself or somewhere below it
DeclaresType(n) == \E i \in 1..Len(Walk(<<n>>)) : IsDefinitionNode(Walk(<<n>>)[i])
DeclaresNoType(n) == ~DeclaresType(n)
\* the program with every statement that declares no type moved behind the
\* last statement that declares one; the order of the definitions is kept
UsagesLast(tree) ==
  [tree EXCEPT !.body = SelectSeq(tree.body, DeclaresType) \o SelectSeq(tree.body, DeclaresNoType)]

\* C5: no usage is translated before every interface, alias and enum of the
\* unit is registered, and the usages resolve as they do when they are written
\* after all the definitions.
C5_DefinitionsBeforeUsages ==
  /\ (\E i \in 1..Len(typeRegistry) : IsUsage(typeRegistry[i])) =>
       Len(SelectSeq(typeRegistry, IsDefinition)) = Len(SelectSeq(Walk(source.body), IsDefinitionNode))
  /\ pc \in {"parsed", "generated"} =>
       Usages(typeRegistry) = Usages(parseCode(UsagesLast(source)))

\* a variable annotated with the name of an interface declared after it is
\* registered with the shape of that interface
C5_Witness ==
  /\ pc = "parsed"
  /\ \E i, j \in 1..Len(source.body) :
       /\ i < j
       /\ source.body[i] = VarV
       /\ source.body[j] = IfaceP
  /\ \E k \in 1..Len(typeRegistry) :
       /\ typeRegistry[k].kind = "variable"
       /\ typeRegistry[k].type = <<TShape(<<"k">>, <<TString("number")>>, <<>>)>>

HasGuard(nodes) == \E i \in 1..Len(Walk(nodes)) : Walk(nodes)[i].check # <<>>
HasRenamedParam(nodes) ==
  \E i \in 1..Len(Walk(nodes)) : \E p \in 1..Len(Walk(nodes)[i].params) :
    Walk(nodes)[i].params[p].name \in {ArgName(n) : n \in ParamNames}

\* C1: in production mode generate returns the stripped source and nothing
\* else: no helper, no enum object, no guard, no renamed parameter.
C1_ProductionOnlyStrips ==
  (pc = "generated" /\ bakedMode = "production") =>
    /\ output.helpers = {}
    /\ output.enumDefs = <<>>
    /\ ~HasGuard(output.transformed)
    /\ ~HasRenamedParam(output.transformed)

\* the return statements that belong to the function whose statements are given
RECURSIVE OwnReturns(_)
OwnReturns(nodes) ==
  IF nodes = <<>> THEN <<>>
  ELSE LET n == Head(nodes) IN
    (IF n.type = "ReturnStatement" THEN <<n>>
     ELSE IF n.type = "FunctionDeclaration" THEN <<>>
     ELSE OwnReturns(n.body)) \o OwnReturns(Tail(nodes))
\* the function declarations of the tree
Functions(tree) == SelectSeq(Walk(tree.body), LAMBDA n : n.type = "FunctionDeclaration")
HasReturnType(name) ==
  /\ funcTypes(typeRegistry, name) # <<>>
  /\ funcTypes(typeRegistry, name)[1].returnType # <<TString("any")>>

\* C6: in development mode every return with an argument, in a function with a
\* declared return type, returns a guarded temporary.
C6_ReturnsRewritten ==
  (pc = "generated" /\ bakedMode = "development") =>
    \A f \in 1..Len(Functions(ast)) :
      HasReturnType(Functions(ast)[f].name) =>
        \A r \in 1..Len(OwnReturns(Functions(ast)[f].body)) :
          LET ret == OwnReturns(Functions(ast)[f].body)[r]
          IN ret.argument # "" =>
               ret.argument \in {RetName(c) : c \in 0..Len(Walk(ast.body))}

\* the parameters of a function declaration that carry an annotation
TypedParams(f) == SelectSeq(f.params, LAMBDA p : p.typeAnnotation # <<>> /\ p.name # "this")
\* the number of guards a statement list starts with
LeadingGuards(body) ==
  CHOOSE n \in 0..Len(body) :
    /\ \A i \in 1..n : body[i].check # <<>>
    /\ n = Len(body) \/ body[n + 1].check = <<>>
\* the body of the transformed function g is the guards on the renamed
\* parameters, the rebindings, then the statements of the written function f
GuardsThenRebindings(f, g) ==
  LET typed == TypedParams(f)
      body == g.body[1].body
      written == f.body[1].body
      n == LeadingGuards(body)
      paramNames == {g.params[i].name : i \in 1..Len(g.params)}
  IN /\ \A i \in 1..n : body[i].check[1].target.base \in paramNames
     /\ Len(body) = n + Len(typed) + Len(written)
     /\ \A j \in 1..Len(typed) :
          /\ body[n + j].type = "VariableDeclaration"
          /\ body[n + j].name = typed[j].name
          /\ body[n + j].init = ArgName(typed[j].name)
          /\ body[n + j].init \in paramNames
     /\ \A j \in 1..Len(written) : body[n + Len(typed) + j].type = written[j].type

\* C7: in development mode the body of every function with a typed parameter
\* is the guards on the renamed parameters, then one rebinding per typed
\* parameter, then the written statements in their order.
C7_GuardsThenRebindingsThenBody ==
  (pc = "generated" /\ bakedMode = "development") =>
    \A i \in 1..Len(source.body) :
      (source.body[i].type = "FunctionDeclaration" /\ TypedParams(source.body[i]) # <<>>) =>
        \A g \in 1..Len(ast.body) :
          ast.body[g].name = source.body[i].name =>
            GuardsThenRebindings(source.body[i], ast.body[g])

\* the node, or a node below it, is a declaration of a type or carries an
\* annotation, a return type or a this parameter
HasTypeSyntax(nodes) ==
  \E i \in 1..Len(Walk(nodes)) :
    LET n == Walk(nodes)[i] IN
      \/ n.type \in TSDeclarations
      \/ n.typeAnnotation # <<>>
      \/ n.returnType # <<>>
      \/ \E p \in 1..Len(n.params) :
           n.params[p].name = "this" \/ n.params[p].typeAnnotation # <<>>
      \/ \E m \in 1..Len(n.members) : n.members[m].typeAnnotation # <<>>

\* C8: after transformAst no declaration of a type and no annotation is left
\* anywhere in the tree.
C8_NoTypeSyntaxLeft ==
  pc = "generated" => ~HasTypeSyntax(ast.body)

(***************************************************************************)
(* Properties of tuples, index signatures and unresolved types.            *)
(***************************************************************************)
\* the type one element absorbed by a rest position has: the element type of
\* the array type written after the dots
RestElementType(el) ==
  IF KindOf(el.types[1]) \in {"array", "readonlyArray"} THEN el.types[1].types[1] ELSE el.types[1]

\* the verdict on a tuple as it is specified: an array; a position the value
\* has matches its element type; a position the value lacks is optional; every
\* element from a rest position on matches the type of one rest element
TupleAccepts(v, t) ==
  /\ IsArray(v)
  /\ \A i \in 1..Len(t.types) :
       LET el == t.types[i] IN
       IF \E j \in 1..(i - 1) : KindOf(t.types[j]) = "rest" THEN TRUE
       ELSE IF KindOf(el) = "rest"
         THEN \A j \in i..Len(v.el) : __matchesType__(v.el[j], RestElementType(el))
       ELSE IF i > Len(v.el) THEN IsOptionalElement(el)
       ELSE __matchesType__(v.el[i], ElemTypeOf(el))

\* C11: for a tuple type the analyzer's matcher, the runtime Matcher and the
\* compiled guard each accept a value exactly when it is an array whose
\* required positions exist and match, whose optional positions match or are
\* missing, and whose elements from a rest position on each match the type of
\* one rest element.
C11_TupleVerdicts ==
  (pc = "analyzed" /\ KindOf(declType) = "tuple") =>
    /\ matchesType(initValue, declType) <=> TupleAccepts(initValue, declType)
    /\ rtVerdict = "true" <=> TupleAccepts(initValue, declType)
    /\ ~Flagged <=> TupleAccepts(initValue, declType)

\* an object shape that declares an index signature
HasIndexSignature(t) == t.js = "shape" /\ KindOf(t) = "" /\ t.index # <<>>
\* an object whose property values are literals
IsFlatObject(v) == v.k = "object" /\ \A i \in 1..Len(v.el) : IsLiteralValue(v.el[i])

\* the verdict on a shape with an index signature as it is specified: every
\* declared property is tested against its own type and nothing else, every
\* other key of the value against the value type of the index signature
IndexShapeAccepts(v, t) ==
  /\ \A i \in PropIndices(t) : __matchesType__(GetProp(v, t.keys[i]), t.types[i])
  /\ \A j \in 1..Len(v.ks) :
       IndexOfKey(t.keys, v.ks[j]) = 0 => __matchesType__(v.el[j], t.index[1])

\* C12: for an object shape with an index signature, the analyzer, the runtime
\* Matcher and the compiled guard test a key of the value against the value
\* type of the index signature exactly when the key is not a declared
\* property, and a declared property only against its own type.
C12_IndexSignatureOnlyUndeclared ==
  (pc = "analyzed" /\ HasIndexSignature(declType) /\ IsFlatObject(initValue)) =>
    /\ diagnostics = <<>> <=> IndexShapeAccepts(initValue, declType)
    /\ rtVerdict = "true" <=> IndexShapeAccepts(initValue, declType)
    /\ ~Flagged <=> IndexShapeAccepts(initValue, declType)

\* a string TypeNode that names nothing the system models
IsUnmodeled(t) == t.js = "string" /\ t.name \in UnmodeledNames
\* the value is checked against an unmodeled type: the type alone, a union with
\* such a member, or such an element or property type under a value that has
\* the element or the property
AgainstUnmodeled(v, t) ==
  \/ IsUnmodeled(t)
  \/ KindOf(t) = "union" /\ \E i \in 1..Len(t.types) : IsUnmodeled(t.types[i])
  \/ KindOf(t) = "array" /\ IsUnmodeled(t.types[1]) /\ IsArray(v) /\ v.el # <<>>
  \/ /\ KindOf(t) = "tuple" /\ Len(t.types) = 2 /\ IsUnmodeled(t.types[2])
     /\ IsArray(v) /\ Len(v.el) = 2 /\ __matchesType__(v.el[1], t.types[1])
  \/ /\ t.js = "shape" /\ t.keys = <<"k">> /\ IsUnmodeled(t.types[1])
     /\ v.k = "object" /\ v.ks = <<"k">>

\* C13: a value checked against an unmodeled or unresolved type, alone or as a
\* union member, element type or property type, is never flagged: no
\* diagnostic, no hook call, and the runtime Matcher accepts.
C13_UnmodeledNeverFails ==
  (pc = "analyzed" /\ AgainstUnmodeled(initValue, declType)) =>
    /\ diagnostics = <<>>
    /\ ~Flagged /\ guardRun.error = ""
    /\ rtVerdict = "true"

(***************************************************************************)
(* Properties of the registry.                                             *)
(***************************************************************************)
\* the entries of the registry with the given kind and name
EntriesOf(registry, kind, name) ==
  SelectSeq(registry, LAMBDA e : e.kind = kind /\ e.name = name)

C15_UniqueByKindAndName ==
  \A i, j \in 1..Len(typeRegistry) :
    i < j => ~(typeRegistry[i].kind = typeRegistry[j].kind
               /\ typeRegistry[i].name = typeRegistry[j].name)

\* the names the type nodes of an annotation refer to
RECURSIVE RefNames(_)
RefNames(annotation) ==
  IF annotation = <<>> THEN {}
  ELSE LET t == annotation[1] IN
    (IF t.type = "TSTypeReference" THEN {t.name} ELSE {})
      \cup UNION {RefNames(<<t.types[i]>>) : i \in 1..Len(t.types)}
\* the names a definition of an interface or an alias refers to
DefinitionRefs(n) ==
  RefNames(n.typeAnnotation)
    \cup UNION {RefNames(n.members[m].typeAnnotation) : m \in 1..Len(n.members)}
IsShapeOrAliasNode(n) == n.type \in {"TSInterfaceDeclaration", "TSTypeAliasDeclaration"}
\* no interface or alias refers to itself, and each one a definition refers to
\* is declared before that definition
DeclaredBeforeUse(tree) ==
  LET nodes == Walk(tree.body)
      defined == {nodes[i].name : i \in {j \in 1..Len(nodes) : IsShapeOrAliasNode(nodes[j])}}
  IN \A i \in 1..Len(nodes) :
       IsShapeOrAliasNode(nodes[i]) =>
         /\ nodes[i].name \notin DefinitionRefs(nodes[i])
         /\ \A name \in DefinitionRefs(nodes[i]) \cap defined :
              \E j \in 1..(i - 1) : IsShapeOrAliasNode(nodes[j]) /\ nodes[j].name = name

\* the TypeNode is, or holds at some depth, a reference by one of the names
RECURSIVE RefersByName(_, _)
RefersByName(type, names) ==
  \/ type.js = "string" /\ type.name \in names
  \/ KindOf(type) = "generic" /\ type.name \in names
  \/ \E i \in 1..Len(type.types) : RefersByName(type.types[i], names)
  \/ \E i \in 1..Len(type.index) : RefersByName(type.index[i], names)
\* the names of the interfaces and aliases of the registry
RegisteredNames(registry) ==
  {registry[i].name : i \in {j \in 1..Len(registry) : registry[j].kind \in {"interface", "typeAlias"}}}
\* the variable, alias, return, parameter and interface property types of an entry
TypesOfEntry(e) ==
  {e.type[i] : i \in 1..Len(e.type)} \cup {e.returnType[i] : i \in 1..Len(e.returnType)}
    \cup {e.params[i].type : i \in 1..Len(e.params)}
    \cup UNION {{e.shape[i].types[p] : p \in 1..Len(e.shape[i].types)} : i \in 1..Len(e.shape)}

\* C16: when no interface or alias is recursive and each is declared before
\* the definitions that refer to it, no variable, parameter, return, alias or
\* interface property type of the finished registry is or holds a reference by
\* the name of a registered interface or alias.
C16_ResolvedByValue ==
  (pc \in {"parsed", "generated"} /\ DeclaredBeforeUse(source)) =>
    \A i \in 1..Len(typeRegistry) :
      typeRegistry[i].kind \in {"variable", "function", "typeAlias", "interface"} =>
        \A t \in TypesOfEntry(typeRegistry[i]) : ~RefersByName(t, RegisteredNames(typeRegistry))

\* the same for the references written without type arguments: what is left by
\* name is a generic node
PlainReferencesResolved ==
  (pc \in {"parsed", "generated"} /\ DeclaredBeforeUse(source)) =>
    \A i \in 1..Len(typeRegistry) :
      typeRegistry[i].kind \in {"variable", "function", "typeAlias", "interface"} =>
        \A t \in TypesOfEntry(typeRegistry[i]) :
          RefersByName(t, RegisteredNames(typeRegistry)) => KindOf(t) = "generic"

\* a shape that declares one property of type number or string and nothing else
DeclaresOneProperty(t) ==
  /\ t.js = "shape" /\ Len(t.keys) = 1 /\ t.index = <<>>
  /\ t.types[1] \in {TString("number"), TString("string")}
\* an object that supplies exactly that property, with a literal of another type
SuppliesWrongLiteral(v, t) ==
  /\ v.k = "object" /\ v.ks = t.keys
  /\ IsLiteralValue(v.el[1]) /\ ~__matchesType__(v.el[1], t.types[1])

\* C17: a declared property is a property of the shape whatever its name, the
\* names of the metadata keys included: a literal of the wrong type supplied
\* for it is reported by the analyzer, the runtime Matcher and the compiled
\* guard.
C17_DeclaredPropertyChecked ==
  (pc = "analyzed" /\ DeclaresOneProperty(declType) /\ SuppliesWrongLiteral(initValue, declType)) =>
    /\ diagnostics # <<>>
    /\ Flagged
    /\ rtVerdict = "false"

(***************************************************************************)
(* Properties of staticAnalyze.                                            *)
(***************************************************************************)
\* the primitive types a literal has the runtime kind of
LiteralKinds == {"string", "number", "boolean", "bigint"}

\* C19: for a variable of a primitive type initialized with a literal,
\* staticAnalyze gives exactly one diagnostic, naming the variable, when the
\* runtime kind of the literal differs from the declared type and none when it
\* matches, and it reports ok exactly when it gave no diagnostic.
C19_PrimitiveInitializer ==
  (pc = "analyzed" /\ declType.js = "string" /\ declType.name \in LiteralKinds
     /\ IsLiteralValue(initValue)) =>
    LET run == analyses[Len(analyses)] IN
    /\ run.ok \in {"true", "false"}
    /\ run.ok = "true" <=> run.errors = <<>>
    /\ IF TypeOf(initValue) # declType.name
         THEN /\ Len(run.errors) = 1
              /\ run.errors[1].what = "initializer"
              /\ run.errors[1].name = VarName
         ELSE run.errors = <<>>

\* the declared properties of a shape that are not optional, as indices
RequiredIndices(t) == {i \in 1..Len(t.keys) : KindOf(t.types[i]) # "optional"}
\* the required properties the object does not supply
MissingIndices(v, t) == {i \in RequiredIndices(t) : IndexOfKey(v.ks, t.keys[i]) = 0}
\* every declared property the object supplies matches its declared type
SuppliedMatch(v, t) ==
  \A i \in 1..Len(t.keys) :
    IndexOfKey(v.ks, t.keys[i]) > 0 =>
      __matchesType__(GetProp(v, t.keys[i]),
                      IF KindOf(t.types[i]) = "optional" THEN t.types[i].types[1] ELSE t.types[i])

\* C20: for a variable of an object-shape type initialized with an object
\* literal whose supplied properties match, staticAnalyze gives exactly one
\* "missing property" diagnostic for each required property the literal does
\* not supply, and no other diagnostic.
C20_OneDiagnosticPerMissing ==
  (pc = "analyzed" /\ declType.js = "shape" /\ declType.index = <<>>
     /\ initValue.k = "object" /\ SuppliedMatch(initValue, declType)) =>
    /\ Len(diagnostics) = Cardinality(MissingIndices(initValue, declType))
    /\ \A d \in 1..Len(diagnostics) : diagnostics[d].what = "missing"
    /\ \A i \in MissingIndices(initValue, declType) :
         \E d \in 1..Len(diagnostics) :
           diagnostics[d].name = VarName /\ diagnostics[d].key = declType.keys[i]



FoundMismatch == analyses # <<>> /\ analyses[Len(analyses)].ok # "true"
\* C21: static diagnostics are advisory without --prod and fatal with it.
\* Without --prod a run in which staticAnalyze found a mismatch still ends
\* with exit code 0 after the output was generated and executed; with --prod
\* such a run generates nothing, writes no file, executes nothing and ends
\* with a failure.
C21_DiagnosticsFatalOnlyInProd ==
  FoundMismatch =>
    IF isProd
      THEN /\ output = NoOutput /\ tmpFile = <<>> /\ ~imported
           /\ pc \in {"analyzed", "exited"}
           /\ pc = "exited" => exitCode \in {"1", "TypeError"}
      ELSE /\ pc = "exited" => (exitCode = "0" /\ output # NoOutput /\ imported)
           /\ pc \in {"written", "imported"} => tmpFile = <<output>>
\* the same statement for the runs of staticAnalyze that returned
DiagnosticsFatalOnlyInProdWhenReturned ==
  (FoundMismatch /\ analyses[Len(analyses)].ok = "false") => C21_DiagnosticsFatalOnlyInProd



(***************************************************************************)
(* The length of an output.  The text of the helpers is the same in every  *)
(* output but for the mode written into it.                                *)
(***************************************************************************)
\* the keyword the printer writes for a statement
StatementKeywords ==
  "FunctionDeclaration" :> "function" @@ "ReturnStatement" :> "return"
  @@ "IfStatement" :> "if" @@ "ClassDeclaration" :> "class"
  @@ "ExportNamedDeclaration" :> "export" @@ "TSInterfaceDeclaration" :> "interface"
  @@ "TSTypeAliasDeclaration" :> "type" @@ "TSEnumDeclaration" :> "enum"
StatementKeyword(node) ==
  IF node.type \in DOMAIN StatementKeywords THEN StatementKeywords[node.type] ELSE ""
\* the characters of the names a compiled check is printed with
RECURSIVE CheckLength(_)
CheckLength(stmts) ==
  IF stmts = <<>> THEN 0
  ELSE LET st == Head(stmts)
       IN Len(ExprText(st.target)) + Len(st.lv) + Len(st.expected)
          + CheckLength(st.body) + CheckLength(Tail(stmts))
\* the characters of the keywords, names and expressions escodegen prints for
\* a list of statements
RECURSIVE PrintedLength(_)
RECURSIVE NamesLength(_)
NamesLength(named) ==
  IF named = <<>> THEN 0 ELSE Len(Head(named).name) + NamesLength(Tail(named))
PrintedLength(nodes) ==
  IF nodes = <<>> THEN 0
  ELSE LET node == Head(nodes)
       IN Len(StatementKeyword(node)) + Len(node.kind) + Len(node.name)
          + Len(node.init) + Len(node.argument)
          + NamesLength(node.params) + NamesLength(node.members)
          + CheckLength(node.check) + PrintedLength(node.body)
          + PrintedLength(Tail(nodes))
\* output.length, less the text of the helpers that does not depend on the call
OutputLength(out) ==
  Len(out.mode) + NamesLength(out.enumDefs) + PrintedLength(out.transformed)

\* a function whose registry entry carries a typed parameter or a return type
TypedFunctions(registry) == {i \in 1..Len(registry) : registry[i].kind = "function"}
\* generate was called in development mode and then in production mode
DevThenProd ==
  /\ Len(emitted) = 2
  /\ emitted[1].mode = "development"
  /\ emitted[2].mode = "production"

\* C22: for a program with a typed function, the output of generate in
\* production mode, called after generate in development mode on the same
\* tree and registry, is strictly shorter than the development output.
C22_ProdShorterThanDev ==
  (DevThenProd /\ TypedFunctions(typeRegistry) # {}) =>
    OutputLength(emitted[2]) < OutputLength(emitted[1])
\* the same statement for the programs whose typed functions have no typed
\* parameter: the second call finds nothing to insert
ProdShorterWithoutTypedParams ==
  (DevThenProd /\ TypedFunctions(typeRegistry) # {}
   /\ \A i \in TypedFunctions(typeRegistry) : typeRegistry[i].params = <<>>) =>
    OutputLength(emitted[2]) < OutputLength(emitted[1])



\* the output holds a check of the variable: a guard statement whose target is
\* the variable, at any depth of the printed statements
ChecksVariable(out, name) ==
  \E i \in 1..Len(Walk(out.transformed)) :
    LET node == Walk(out.transformed)[i]
    IN node.check # <<>> /\ node.check[1].target.base = name
\* the variables of the registry whose declared type has a check to compile
CheckedVariables(registry) ==
  {i \in 1..Len(registry) :
     /\ registry[i].kind = "variable"
     /\ compileCheck(Expr(registry[i].name), registry[i].type[1], "development",
                     registry[i].name, [d \in 1..2 |-> 0], 0) # <<>>}

\* C23: the development output of a program that declares a variable with a
\* type annotation holds a runtime check of that variable against its
\* declared type.
C23_VariableCheckEmitted ==
  (pc = "generated" /\ Len(emitted) = 1 /\ bakedMode = "development") =>
    \A i \in CheckedVariables(typeRegistry) : ChecksVariable(output, typeRegistry[i].name)



(***************************************************************************)
(* Properties of the running output.                                       *)
(***************************************************************************)
\* the function of the source that was called
WrittenCallee ==
  source.body[CHOOSE j \in 1..Len(source.body) :
                source.body[j].type = "FunctionDeclaration"
                /\ source.body[j].name = lastCall.callee]
\* the argument the call passed for the parameter of the given name
ArgumentOf(name) ==
  BindParams(WrittenCallee.params, lastCall.arguments)[name]
\* some argument of the call, or the value the written function returns for
\* it, does not match the type declared for it
CallMismatches(entry) ==
  \/ \E i \in 1..Len(entry.params) :
       ~entry.params[i].isThis
       /\ ~__matchesType__(ArgumentOf(entry.params[i].name), entry.params[i].type)
  \/ /\ lastCall.erased.type = "return"
     /\ ~__matchesType__(lastCall.erased.value, entry.returnType[1])
\* the called function has a typed parameter and a typed return
TypedCall ==
  /\ pc = "called"
  /\ output.mode = "development"
  /\ funcTypes(typeRegistry, lastCall.callee) # <<>>
  /\ LET entry == funcTypes(typeRegistry, lastCall.callee)[1]
     IN Len(entry.params) > 0 /\ entry.returnType # <<TString("any")>>

\* C24: in development mode a call of a function with typed parameters and a
\* typed return completes as the call of the type-erased function does, with
\* the same returned value, and __handleCheckError__ is called during the call
\* if and only if an argument or the returned value does not match its
\* declared type.
C24_GuardsTransparent ==
  TypedCall =>
    /\ lastCall.completion = lastCall.erased
    /\ guardRun.calls # <<>> <=> CallMismatches(funcTypes(typeRegistry, lastCall.callee)[1])
\* the two examples: step("up") logs nothing and returns "up", step("oops")
\* logs one warning and returns "oops"
StepExamples ==
  (TypedCall /\ lastCall.callee = "step") =>
    /\ lastCall.completion = Completion("return", lastCall.arguments[1], "")
    /\ Len(guardRun.log) = (IF lastCall.arguments[1] = Str("up") THEN 0 ELSE 1)



\* the returns with a literal argument that the body of the function
\* declaration f holds directly, outside every nested function
DirectLiteralReturns(f) ==
  {i \in 1..Len(f.body[1].body) :
     LET st == f.body[1].body[i]
     IN st.type = "ReturnStatement" /\ st.argument # ""
        /\ ParseExpression(st.argument).type = "Literal"}
\* those whose literal does not match the declared return type of f
MismatchingReturns(f, registry) ==
  {i \in DirectLiteralReturns(f) :
     ~matchesType(ParseExpression(f.body[1].body[i].argument).value,
                  funcReturnTypes(registry, f.name)[1])}
\* the diagnostics of a literal return attributed to the function of that name
ReturnDiagnostics(name) ==
  {d \in 1..Len(diagnostics) : diagnostics[d].what = "return" /\ diagnostics[d].name = name}
\* the function declarations of the unit with a declared return type
ReturnTyped(registry) ==
  {j \in 1..Len(source.body) :
     /\ source.body[j].type = "FunctionDeclaration"
     /\ funcReturnTypes(registry, source.body[j].name) # <<>>}

\* C25: every return with a literal argument directly in the body of a named
\* function declaration is checked against the declared return type of that
\* function, one diagnostic for each that does not match, also after a
\* function expression or an arrow function earlier in the body; the returns
\* of a nested function give no diagnostic for the outer function.
C25_ReturnsAttributed ==
  (pc = "analyzed" /\ analyses[Len(analyses)].ok # "TypeError") =>
    \A j \in ReturnTyped(typeRegistry) :
      Cardinality(ReturnDiagnostics(source.body[j].name))
        = Cardinality(MismatchingReturns(source.body[j], typeRegistry))
\* the same statement for the functions that hold no nested function
ReturnsAttributedWithoutNested ==
  (pc = "analyzed" /\ analyses[Len(analyses)].ok # "TypeError") =>
    \A j \in ReturnTyped(typeRegistry) :
      (\A i \in 1..Len(Walk(source.body[j].body)) :
         Walk(source.body[j].body)[i].type \notin FunctionNodes) =>
        Cardinality(ReturnDiagnostics(source.body[j].name))
          = Cardinality(MismatchingReturns(source.body[j], typeRegistry))



\* no generated loop of the statements declares a loop variable that a loop
\* around it, or one of the loops in enclosing, declares
RECURSIVE LoopsDistinct(_, _)
LoopsDistinct(stmts, enclosing) ==
  \A i \in 1..Len(stmts) :
    LET st == stmts[i] IN
    IF st.lv # ""
      THEN st.lv \notin enclosing /\ LoopsDistinct(st.body, enclosing \cup {st.lv})
      ELSE LoopsDistinct(st.body, enclosing)
\* the deepest nesting of generated loops in the statements
RECURSIVE LoopDepth(_)
LoopDepth(stmts) ==
  IF stmts = <<>> THEN 0
  ELSE LET st == Head(stmts)
           here == LoopDepth(st.body) + (IF st.lv # "" THEN 1 ELSE 0)
           rest == LoopDepth(Tail(stmts))
       IN IF here > rest THEN here ELSE rest

\* C26: in a compiled guard the loop variable of a generated loop differs from
\* the loop variable of every generated loop around it.
C26_LoopVariablesDistinct ==
  pc # "input" => LoopsDistinct(guardCode, {})
\* the same statement for the guards without a loop inside a loop
LoopVariablesDistinctWhenFlat ==
  (pc # "input" /\ LoopDepth(guardCode) <= 1) => LoopsDistinct(guardCode, {})



\* the members an enum declaration declares, in declaration order, each with
\* the value the language gives it: the value of its initializer, or one more
\* than the member before it
RECURSIVE DeclaredMembers(_, _, _, _)
DeclaredMembers(members, i, next, acc) ==
  IF i > Len(members) THEN acc
  ELSE LET m == members[i]
           value ==
             IF m.initializer = <<>> THEN Num(next)
             ELSE IF m.initializer[1].k = "negative" THEN Num(0 - m.initializer[1].n)
             ELSE IF m.initializer[1].k = "expression" THEN Num(m.initializer[1].n)
             ELSE m.initializer[1]
       IN DeclaredMembers(members, i + 1,
                          IF value.k = "number" THEN value.n + 1 ELSE next,
                          Append(acc, [name |-> m.name, value |-> value]))
\* the enum declarations of the unit
EnumDeclarations == {j \in 1..Len(source.body) : source.body[j].type = "TSEnumDeclaration"}
\* the constant objects of the output that carry the given name
Materialized(name) == {i \in 1..Len(output.enumDefs) : output.enumDefs[i].name = name}
\* the guards of the output that test membership in an enum
EnumGuards ==
  {i \in 1..Len(Walk(output.transformed)) :
     /\ Walk(output.transformed)[i].check # <<>>
     /\ Walk(output.transformed)[i].check[1].cond = "includes"}
\* the enum declaration is one constant object of the output with the
\* declared members and values
MaterializedAsDeclared(node) ==
  /\ Cardinality(Materialized(node.name)) = 1
  /\ \A i \in Materialized(node.name) :
       output.enumDefs[i].entries = DeclaredMembers(node.members, 1, 0, <<>>)
\* a guard on an enum reference flags exactly the values that equal none of
\* the values of the constant object
GuardsByMaterializedValues ==
  \A g \in EnumGuards :
    LET st == Walk(output.transformed)[g].check[1] IN
    \A i \in Materialized(st.expected) : \A v \in AtomValues :
      Fails(st, v) <=> ~\E e \in 1..Len(output.enumDefs[i].entries) :
                          StrictEq(v, output.enumDefs[i].entries[e].value)
DevelopmentOutput == pc = "generated" /\ Len(emitted) = 1 /\ bakedMode = "development"

\* C27: in the development output every enum declaration is one constant
\* object listing every declared member in declaration order with its value,
\* and the guard compiled for a reference to the enum flags a value if and
\* only if the value equals none of the values of that object.
C27_EnumsMaterialized ==
  DevelopmentOutput =>
    /\ \A j \in EnumDeclarations : MaterializedAsDeclared(source.body[j])
    /\ GuardsByMaterializedValues
\* the same statement for the enums whose initializers are literals
LiteralEnumsMaterialized ==
  DevelopmentOutput =>
    /\ \A j \in EnumDeclarations :
         (\A m \in 1..Len(source.body[j].members) :
            source.body[j].members[m].initializer = <<>>
            \/ source.body[j].members[m].initializer[1].k \in {"number", "string"})
         => MaterializedAsDeclared(source.body[j])
    /\ GuardsByMaterializedValues



\* the function declarations of the unit that transformAst rewrites: those
\* whose registry entry lists a parameter
Transformed ==
  {j \in 1..Len(source.body) :
     /\ source.body[j].type = "FunctionDeclaration"
     /\ funcTypes(typeRegistry, source.body[j].name) # <<>>
     /\ Len(funcTypes(typeRegistry, source.body[j].name)[1].params) > 0}
\* the function of the output that carries the given name
OutputFunction(name) ==
  output.transformed[CHOOSE i \in 1..Len(output.transformed) :
                       output.transformed[i].type = "FunctionDeclaration"
                       /\ output.transformed[i].name = name]
ParameterNames(f) == {f.params[i].name : i \in 1..Len(f.params)}
\* the names the guards at the head of the body read
GuardTargets(g) ==
  {g.body[1].body[i].check[1].target.base :
     i \in {k \in 1..Len(g.body[1].body) : g.body[1].body[k].check # <<>>}}
\* the names the rebindings  const p = __arg_p  read
RebindingSources(g) ==
  {g.body[1].body[i].init :
     i \in {k \in 1..Len(g.body[1].body) :
              /\ g.body[1].body[k].type = "VariableDeclaration"
              /\ g.body[1].body[k].init \in {ArgName(n) : n \in ParamNames}}}
\* how often the name is bound in the scope of g: as a parameter and by a
\* declaration of the body
Bindings(g, name) ==
  Cardinality({i \in 1..Len(g.params) : g.params[i].name = name})
  + Cardinality({i \in 1..Len(g.body[1].body) :
                   g.body[1].body[i].type = "VariableDeclaration"
                   /\ g.body[1].body[i].name = name})
\* the renamed names that are read are parameters, and every written
\* parameter name is bound once
WellRenamed(f, g) ==
  /\ GuardTargets(g) \cup RebindingSources(g) \subseteq ParameterNames(g)
  /\ \A n \in ParameterNames(f) \ {"this"} : Bindings(g, n) = 1

\* C28: in the development output of every transformed function each name
\* __arg_<p> read by a guard or a rebinding is the name of a parameter of the
\* function, and each parameter name of the written function is bound exactly
\* once in the scope of the function, also with untyped parameters and with a
\* this parameter.
C28_RenamedParametersBound ==
  DevelopmentOutput =>
    \A j \in Transformed : WellRenamed(source.body[j], OutputFunction(source.body[j].name))
\* the same statement for the functions whose parameters are all typed and
\* none of which is this
AllTypedParametersBound ==
  DevelopmentOutput =>
    \A j \in Transformed :
      (\A i \in 1..Len(source.body[j].params) :
         source.body[j].params[i].typeAnnotation # <<>> /\ source.body[j].params[i].name # "this")
      => WellRenamed(source.body[j], OutputFunction(source.body[j].name))



\* the key under which the comparison shape declares what the shape under
\* test declares as kind
OtherKey == "m"
ReKey(keys) == [i \in 1..Len(keys) |-> IF keys[i] = "kind" THEN OtherKey ELSE keys[i]]
\* the shape with the property kind declared under the other name, and the
\* object literal written for it
ShapeWithoutKind(type) == [type EXCEPT !.keys = ReKey(type.keys)]
ValueWithoutKind(value) ==
  IF value.k = "object" THEN [value EXCEPT !.ks = ReKey(value.ks)] ELSE value
DeclaresKind(type) == type.js = "shape" /\ IndexOfKey(type.keys, "kind") > 0
\* the diagnostics of the analyzer and the reports of the guard for the
\* comparison shape and the corresponding value
DiagnosticsWithoutKind ==
  Outcome(checkInitializer(VarName, ExprOf(ValueWithoutKind(initValue)),
                           ShapeWithoutKind(declType), <<>>)).errors
GuardRunWithoutKind ==
  RunGuard(compileCheck(Expr(VarName), ShapeWithoutKind(declType), bakedMode, VarName,
                        CHOOSE rnd \in RandomDraws : TRUE, 0),
           VarName, ValueWithoutKind(initValue), bakedMode)

\* C29: a shape that declares a property named kind is checked as a shape:
\* the analyzer reports as many diagnostics, and the compiled guard as many
\* mismatches, as for the same shape with that property under another name.
C29_KindPropertyIsAShape ==
  (pc = "analyzed" /\ DeclaresKind(declType)) =>
    /\ Len(diagnostics) = Len(DiagnosticsWithoutKind)
    /\ Len(guardRun.calls) = Len(GuardRunWithoutKind.calls)



\* the annotated variable declarations in the order the walks enter them
AnnotatedDeclarations(tree) ==
  SelectSeq(Walk(tree.body),
            LAMBDA n : n.type = "VariableDeclaration" /\ n.typeAnnotation # <<>>)
\* the registry entries of kind variable, in the order pass 2 pushed them: the
\* i-th of them was pushed for the i-th annotated declaration
VariableEntries(registry) == SelectSeq(registry, LAMBDA e : e.kind = "variable")
\* the diagnostics of the initializers of the declarations from the i-th on,
\* each checked against the type of its own registry entry
RECURSIVE OwnTypeDiagnostics(_, _, _, _)
OwnTypeDiagnostics(declarations, entries, i, errors) ==
  IF i > Len(declarations) THEN errors
  ELSE OwnTypeDiagnostics(declarations, entries, i + 1,
         IF declarations[i].init # ""
           THEN checkInitializer(declarations[i].name, ParseExpression(declarations[i].init),
                                 entries[i].type[1], errors)
           ELSE errors)
\* the diagnostics of one run that name a variable or a path into one
VariableDiagnostics(errors) == SelectSeq(errors, LAMBDA e : e.what \notin {"return", "void"})
\* the last run of staticAnalyze returned
Returned == pc = "analyzed" /\ analyses[Len(analyses)].ok # "TypeError"
\* two annotated declarations of the unit carry one name and different types
Shadowing ==
  \E i, j \in 1..Len(VariableEntries(typeRegistry)) :
    /\ VariableEntries(typeRegistry)[i].name = VariableEntries(typeRegistry)[j].name
    /\ VariableEntries(typeRegistry)[i].type # VariableEntries(typeRegistry)[j].type

\* C30: the diagnostics the analyzer prints about variable initializers are
\* those of every annotated declaration checked against the type written on
\* that declaration, also when the unit declares the name twice with
\* different types.
C30_InitializerAgainstOwnType ==
  (Returned /\ Len(AnnotatedDeclarations(ast)) = Len(VariableEntries(typeRegistry))) =>
    VariableDiagnostics(diagnostics)
      = Outcome(OwnTypeDiagnostics(AnnotatedDeclarations(ast), VariableEntries(typeRegistry),
                                   1, <<>>)).errors
\* the same statement for the units in which no name is declared with two types
OwnTypeWithoutShadowing ==
  (Returned /\ Len(AnnotatedDeclarations(ast)) = Len(VariableEntries(typeRegistry))
     /\ ~Shadowing) =>
    VariableDiagnostics(diagnostics)
      = Outcome(OwnTypeDiagnostics(AnnotatedDeclarations(ast), VariableEntries(typeRegistry),
                                   1, <<>>)).errors

=============================================================================
